---- MODULE Spec2Model ----
(***************************************************************************)
(* A model of acton_agent's agent loop (src/acton_agent/agent/agent.py):   *)
(* Agent.run_stream as a generator that is resumed from one yield to the   *)
(* next, Agent.run as its consumer, tool dispatch with the tenacity retry  *)
(* of RetryConfig, the response classification of ResponseParser.parse,    *)
(* and the conversation history.                                           *)
(*                                                                         *)
(* Texts are TLA+ strings; an Optional[str] is a sequence of length 0      *)
(* (None) or 1 (the string).                                               *)
(***************************************************************************)
EXTENDS Integers, Sequences, FiniteSets, TLC

\* ------------------------------------------------------------------ bounds
MaxIterations == 2      \* largest max_iterations an agent is constructed with
MaxAttempts == 2        \* largest RetryConfig.max_attempts
MaxRuns == 2            \* run / run_stream calls made on one agent
MaxCalls == 3           \* calls of the LLM client that its script answers freely

VARIABLES
    stream,                 \* Agent.stream
    has_call_stream,        \* hasattr(llm_client, "call_stream")
    max_iterations,         \* Agent.max_iterations
    max_attempts,           \* Agent.retry_config.max_attempts
    tool_registry,          \* Agent.tool_registry._tools: name -> Tool
    conversation_history,   \* Agent.conversation_history
    pc,                     \* where run_stream's generator stands
    iteration,              \* the loop variable of run_stream
    attempt,                \* tenacity's attempt number inside the current retry
    messages,               \* the list _build_messages returned this iteration
    pending,                \* chunks the client's call_stream has yet to yield
    llm_response_text,      \* run_stream's local of that name
    agent_response,         \* what ResponseParser.parse returned
    tool_results,           \* the results list of _execute_tool_calls
    last_error,             \* text of the exception of the latest failed attempt
    outcome,                \* how the latest run / run_stream call ended
    trace,                  \* what the current call did, in order
    calls,                  \* calls of the LLM client so far, over all runs
    runs,                   \* run / run_stream calls started so far
    func,                   \* what the function given to wrap_function does, call by call
    exception_types,        \* the exception_types given to wrap_function
    detected_type,          \* StreamingTokenParser.detected_types, for the one step_id
    reg_tools,              \* ToolRegistry._tools of acton_agent.tools, in insertion order
    reg_toolsets,           \* ToolRegistry._toolsets, in insertion order
    tool_to_toolset,        \* ToolRegistry._tool_to_toolset: tool name -> toolset name
    received,               \* the parameters the latest Tool.execute was called with
    step_buffer,            \* StreamingTokenParser.step_buffers, for the one step_id
    parsed_event,           \* what the latest try_parse_partial returned
    has_jiter,              \* agent_stream.HAS_JITER
    json_str,               \* the argument of parse_partial_json
    parsed,                 \* what parse_partial_json returned
    agent_stream,           \* the events the generator given to a wrapper has yet to yield
    current_step_id,        \* parse_streaming_events: its local of that name
    stream_active,          \* parse_streaming_events: its local of that name
    last_complete,          \* parse_streaming_events: its local of that name
    in_llm_response,        \* stream_with_partial_json: its local of that name
    current_step_tokens,    \* stream_with_partial_json: its local of that name
    parser_buffer,          \* StreamingResponseParser.buffer.getvalue()
    last_parsed             \* StreamingResponseParser.last_parsed

registry == <<reg_tools, reg_toolsets, tool_to_toolset, received>>
wrappers == <<agent_stream, current_step_id, stream_active, last_complete,
              in_llm_response, current_step_tokens, parser_buffer, last_parsed>>
streaming == <<step_buffer, parsed_event, has_jiter, json_str, parsed, wrappers>>
config == <<stream, has_call_stream, max_iterations, max_attempts, func,
           exception_types, detected_type, registry, streaming>>
locals == <<iteration, attempt, messages, pending, llm_response_text,
            agent_response, tool_results, last_error>>
vars == <<stream, has_call_stream, max_iterations, max_attempts, tool_registry,
          conversation_history, pc, iteration, attempt, messages, pending,
          llm_response_text, agent_response, tool_results, last_error, outcome,
          trace, calls, runs, func, exception_types, detected_type, registry,
          streaming>>

\* ------------------------------------------------------------ text helpers
None == <<>>
Some(x) == <<x>>

\* The objects a specification does not use: no ToolRegistry of
\* acton_agent.tools, no StreamingTokenParser, no call of parse_partial_json
WrappersUnused ==
    /\ agent_stream = <<>>
    /\ current_step_id = None
    /\ stream_active = FALSE
    /\ last_complete = FALSE
    /\ in_llm_response = FALSE
    /\ current_step_tokens = <<>>
    /\ parser_buffer = ""
    /\ last_parsed = <<>>
RegistryUnused ==
    /\ reg_tools = <<>>
    /\ reg_toolsets = <<>>
    /\ tool_to_toolset = <<>>
    /\ received = None
StreamingUnused ==
    /\ step_buffer = None
    /\ parsed_event = None
    /\ has_jiter = FALSE
    /\ json_str = ""
    /\ parsed = None
    /\ WrappersUnused

\* str.startswith
StartsWith(s, prefix) ==
    Len(s) >= Len(prefix) /\ SubSeq(s, 1, Len(prefix)) = prefix

\* Message(role=..., content=...)
Message(role, content) == [role |-> role, content |-> content]

\* ------------------------------------------------- the collaborators' inputs
UserInputs == {"What is 5 + 3?"}

ToolNames == {"calculator", "echo"}

\* A Tool object: its name, the text its execute returns when it returns, and
\* whether execute raises: "never", "always" or "sometimes" (any attempt may)
Tool(name, output, raises) == [name |-> name, output |-> output, raises |-> raises]

\* The tools there are to register. The calculator of the tests returns a
\* number or an "Error: ..." text; the echo tools return a text that starts
\* with "Error" but has no colon, or the empty text, and two of them fail.
Tools ==
    {Tool("calculator", "8", "never"),
     Tool("calculator", "Error: Division by zero", "never"),
     Tool("echo", "Errors: 0", "never"),
     Tool("echo", "", "sometimes"),
     Tool("echo", "", "always")}

\* str(e) of what a tool's execute, or the client's call / call_stream, may raise
ToolExceptions == {"boom"}
ClientExceptions == {"Connection refused"}

\* Texts an LLM client may return (call) or stream (call_stream)
RespPlan == "{\"thought\": \"t\", \"plan\": [\"s1\"]}"
RespStepTwo ==
    "{\"thought\": \"t\", \"tool_calls\": [{\"id\": \"c1\", \"tool_name\": \"echo\"}, {\"id\": \"c2\", \"tool_name\": \"calculator\"}]}"
RespFinal == "{\"final_answer\": \"The answer is 42\"}"
RespRaw == "It is 8."

LLMResponses == {RespPlan, RespStepTwo, RespFinal, RespRaw}

\* The mock client of the tests answers from its list of responses and, once
\* the list is used up, with a final answer. n is the number of calls so far.
ScriptLeft(n) == n < MaxCalls
ClientResponses(n) == IF ScriptLeft(n) THEN LLMResponses ELSE {RespFinal}

\* How call_stream cuts a response into chunks: in two pieces, after the
\* third character
Chunkings(text) ==
    {<<SubSeq(text, 1, 3), SubSeq(text, 4, Len(text))>>}

\* ToolCall(id=..., tool_name=...)
ToolCall(id, tool_name) == [id |-> id, tool_name |-> tool_name]

\* ------------------------------------------------------------- characters
\* The character at place i of s ("" outside s)
Ch(s, i) == IF i \in 1..Len(s) THEN SubSeq(s, i, i) ELSE ""

\* s holds lit from place i on
StartsAt(s, i, lit) ==
    i >= 1 /\ i + Len(lit) - 1 <= Len(s) /\ SubSeq(s, i, i + Len(lit) - 1) = lit

Whitespace == {" ", "\n", "\t", "\r"}

\* The first place from i on that holds no white space
RECURSIVE SkipWs(_, _)
SkipWs(s, i) == IF Ch(s, i) \in Whitespace THEN SkipWs(s, i + 1) ELSE i

\* The last place up to i that holds no white space
RECURSIVE SkipWsBack(_, _)
SkipWsBack(s, i) == IF Ch(s, i) \in Whitespace THEN SkipWsBack(s, i - 1) ELSE i

\* (mutant) strip() left out
StripNothing(s) == s

\* str.strip()
Strip(s) == SubSeq(s, SkipWs(s, 1), SkipWsBack(s, Len(s)))

\* A TLA+ string cannot hold a backtick: the texts write ^ for it
Fence == "^^^"

\* ------------------------------------------------------------- json.loads
\* A decoded JSON value: kind is "null", "bool", "number", "string", "array"
\* or "object"; str the text of a scalar; items the elements of an array or
\* the values of an object, whose keys are keys, in the order of the text
JNull == [kind |-> "null", str |-> "", keys |-> <<>>, items |-> <<>>]
JBool(s) == [kind |-> "bool", str |-> s, keys |-> <<>>, items |-> <<>>]
JNumber(s) == [kind |-> "number", str |-> s, keys |-> <<>>, items |-> <<>>]
JString(s) == [kind |-> "string", str |-> s, keys |-> <<>>, items |-> <<>>]
JArray(items) == [kind |-> "array", str |-> "", keys |-> <<>>, items |-> items]
JsonObject(keys, items) ==
    [kind |-> "object", str |-> "", keys |-> keys, items |-> items]

\* What the scanner made of the text from some place on: a value and the
\* place after it, or a failure
Scanned(val, pos) == [ok |-> TRUE, val |-> val, pos |-> pos]
ScanFailed == [ok |-> FALSE, val |-> JNull, pos |-> 0]

\* The characters of a string up to its closing quote; i is the place after
\* the opening quote. A control character ends the scan with a failure. Of
\* the escapes, \" \\ \/ \n \t and \u0041 are decoded.
RECURSIVE ScanString(_, _, _)
ScanString(s, i, acc) ==
    LET c == Ch(s, i)
        e == Ch(s, i + 1)
    IN  IF c \in {"", "\n", "\t", "\r"} THEN ScanFailed
        ELSE IF c = "\"" THEN Scanned(JString(acc), i + 1)
        ELSE IF c # "\\" THEN ScanString(s, i + 1, acc \o c)
        ELSE IF e \in {"\"", "\\", "/"} THEN ScanString(s, i + 2, acc \o e)
        ELSE IF e = "n" THEN ScanString(s, i + 2, acc \o "\n")
        ELSE IF e = "t" THEN ScanString(s, i + 2, acc \o "\t")
        ELSE IF StartsAt(s, i + 1, "u0041") THEN ScanString(s, i + 6, acc \o "A")
        ELSE ScanFailed

Digits == {"0", "1", "2", "3", "4", "5", "6", "7", "8", "9"}

\* The place after the digits that start at i
RECURSIVE SkipDigits(_, _)
SkipDigits(s, i) == IF Ch(s, i) \in Digits THEN SkipDigits(s, i + 1) ELSE i

\* An integer: an optional minus sign and digits
ScanNumber(s, i) ==
    LET d == IF Ch(s, i) = "-" THEN i + 1 ELSE i
        e == SkipDigits(s, d)
    IN  IF e > d THEN Scanned(JNumber(SubSeq(s, i, e - 1)), e) ELSE ScanFailed

RECURSIVE ScanValue(_, _), ScanElements(_, _, _), ScanMembers(_, _, _, _)

\* The value that starts at the first place from i on that is no white space
ScanValue(s, i) ==
    LET j == SkipWs(s, i)
        c == Ch(s, j)
    IN  IF c = "\"" THEN ScanString(s, j + 1, "")
        ELSE IF c = "{"
        THEN IF Ch(s, SkipWs(s, j + 1)) = "}"
             THEN Scanned(JsonObject(<<>>, <<>>), SkipWs(s, j + 1) + 1)
             ELSE ScanMembers(s, j + 1, <<>>, <<>>)
        ELSE IF c = "["
        THEN IF Ch(s, SkipWs(s, j + 1)) = "]"
             THEN Scanned(JArray(<<>>), SkipWs(s, j + 1) + 1)
             ELSE ScanElements(s, j + 1, <<>>)
        ELSE IF StartsAt(s, j, "null") THEN Scanned(JNull, j + 4)
        ELSE IF StartsAt(s, j, "true") THEN Scanned(JBool("true"), j + 4)
        ELSE IF StartsAt(s, j, "false") THEN Scanned(JBool("false"), j + 5)
        ELSE ScanNumber(s, j)

\* The elements of an array from i on, after those of items
ScanElements(s, i, items) ==
    LET v == ScanValue(s, i)
        j == SkipWs(s, v.pos)
    IN  IF ~v.ok THEN ScanFailed
        ELSE IF Ch(s, j) = "]" THEN Scanned(JArray(Append(items, v.val)), j + 1)
        ELSE IF Ch(s, j) = "," THEN ScanElements(s, j + 1, Append(items, v.val))
        ELSE ScanFailed

\* The members of an object from i on, after those of keys and items
ScanMembers(s, i, keys, items) ==
    LET k == SkipWs(s, i)
        key == IF Ch(s, k) = "\"" THEN ScanString(s, k + 1, "") ELSE ScanFailed
        colon == SkipWs(s, key.pos)
        v == IF key.ok /\ Ch(s, colon) = ":" THEN ScanValue(s, colon + 1) ELSE ScanFailed
        j == SkipWs(s, v.pos)
    IN  IF ~v.ok THEN ScanFailed
        ELSE IF Ch(s, j) = "}"
        THEN Scanned(JsonObject(Append(keys, key.val.str), Append(items, v.val)), j + 1)
        ELSE IF Ch(s, j) = ","
        THEN ScanMembers(s, j + 1, Append(keys, key.val.str), Append(items, v.val))
        ELSE ScanFailed

\* json.loads raised json.JSONDecodeError
JSONDecodeError == [ok |-> FALSE, val |-> JNull]

\* json.loads: one value, with white space around it at most
JsonLoads(text) ==
    LET v == ScanValue(text, 1) IN
    IF v.ok /\ SkipWs(text, v.pos) = Len(text) + 1
    THEN [ok |-> TRUE, val |-> v.val]
    ELSE JSONDecodeError

\* -------------------------------------------- _extract_json_from_markdown
\* ^ under re.MULTILINE: the start of the text or of a line
LineStart(t, i) == i = 1 \/ Ch(t, i - 1) = "\n"

\* $ under re.MULTILINE: the end of the text or of a line
LineEnd(t, i) == i = Len(t) + 1 \/ Ch(t, i) = "\n"

\* The place after the opening fence at i and its (?:json)?
AfterTag(t, i) == IF StartsAt(t, i + 3, "json") THEN i + 7 ELSE i + 3

\* \n^^^\s*$ can match at q
ClosingAt(t, q) ==
    /\ StartsAt(t, q, "\n" \o Fence)
    /\ \E e \in (q + 4)..SkipWs(t, q + 4) : LineEnd(t, e)

\* The places where (.*?) of the first pattern can start for the fence at i:
\* after a newline of the white space that follows the tag
ContentStarts(t, i) ==
    {c \in (AfterTag(t, i) + 1)..SkipWs(t, AfterTag(t, i)) :
        /\ Ch(t, c - 1) = "\n"
        /\ \E q \in c..Len(t) : ClosingAt(t, q)}

\* The first pattern matches with its opening fence at i
FencedBlockAt(t, i) ==
    LineStart(t, i) /\ StartsAt(t, i, Fence) /\ ContentStarts(t, i) # {}

\* group(1) of that match: \s* is greedy, (.*?) is not
FencedBlockContent(t, i) ==
    LET c == CHOOSE c \in ContentStarts(t, i) : \A d \in ContentStarts(t, i) : d <= c
        q == CHOOSE q \in c..Len(t) :
                 ClosingAt(t, q) /\ \A r \in c..(q - 1) : ~ClosingAt(t, r)
    IN  SubSeq(t, c, q - 1)

\* The second pattern, ^^^(?:json)?\s*(.*?)^^^\s*$ from the start of the
\* stripped text to its end, matches
InlineFence(t) ==
    /\ StartsAt(t, 1, Fence)
    /\ StartsAt(t, Len(t) - 2, Fence)
    /\ AfterTag(t, 1) <= Len(t) - 2

\* group(1) of that match
InlineFenceContent(t) == SubSeq(t, AfterTag(t, 1), Len(t) - 3)

ExtractJsonFromMarkdown(text) ==
    LET t == Strip(text)
        blocks == {i \in 1..Len(t) : FencedBlockAt(t, i)}
    IN  IF blocks # {}
        THEN Strip(FencedBlockContent(t, CHOOSE i \in blocks : \A j \in blocks : i <= j))
        ELSE IF InlineFence(t) THEN Strip(InlineFenceContent(t))
        ELSE t

\* ------------------------------------------------------ ResponseParser.parse
AgentPlan(thought, plan) ==
    [type |-> "AgentPlan", thought |-> thought, plan |-> plan,
     tool_calls |-> <<>>, final_answer |-> ""]
AgentStep(thought, tool_calls) ==
    [type |-> "AgentStep", thought |-> thought, plan |-> <<>>,
     tool_calls |-> tool_calls, final_answer |-> ""]
AgentFinalResponse(thought, final_answer) ==
    [type |-> "AgentFinalResponse", thought |-> thought, plan |-> <<>>,
     tool_calls |-> <<>>, final_answer |-> final_answer]

\* The classes parse may return
ResponseClasses == {"AgentPlan", "AgentStep", "AgentFinalResponse"}

\* An exception raised inside the try of parse: its class, and str() of it
Raised(class, text) ==
    [type |-> class, thought |-> None, plan |-> <<>>, tool_calls |-> <<>>,
     final_answer |-> text]

\* pydantic's str(ValidationError), whose wording the model does not follow
ValidationErrorText == "1 validation error"

\* str() of the TypeError or AttributeError of an operation that the decoded
\* value does not support; the wording is not followed either
UnsupportedText == "unsupported operand"

\* key in data, for a dict
Has(data, key) == \E n \in DOMAIN data.keys : data.keys[n] = key

\* data.get(key): the value of a key that the text repeats is its last one
Get(data, key) ==
    IF Has(data, key)
    THEN data.items[CHOOSE n \in DOMAIN data.keys :
                        /\ data.keys[n] = key
                        /\ \A m \in DOMAIN data.keys : data.keys[m] = key => m <= n]
    ELSE JNull

\* key in data, for what json.loads can return: the keys of a dict, the
\* elements of a list, the substrings of a str
In(key, data) ==
    CASE data.kind = "object" -> Has(data, key)
      [] data.kind = "array" -> \E n \in DOMAIN data.items : data.items[n] = JString(key)
      [] data.kind = "string" -> \E i \in 1..Len(data.str) : StartsAt(data.str, i, key)
      [] OTHER -> FALSE

\* len(value) raises TypeError
LenRaises(value) == value.kind \in {"null", "bool", "number"}

\* len(value)
LenOf(value) == IF value.kind = "string" THEN Len(value.str) ELSE Len(value.items)

\* A field declared str = Field(...): required, a string
ValidStr(data, key) == Has(data, key) /\ Get(data, key).kind = "string"

\* A field declared Optional[str] = Field(default=None)
ValidOptionalStr(data, key) == Get(data, key).kind \in {"string", "null"}

\* The value of an Optional[str] field
OptionalStr(value) == IF value.kind = "string" THEN Some(value.str) ELSE None

\* ToolCall(**item): id and tool_name are required strings, parameters is a
\* dict with a default
ValidToolCall(item) ==
    /\ item.kind = "object"
    /\ ValidStr(item, "id")
    /\ ValidStr(item, "tool_name")
    /\ Has(item, "parameters") => Get(item, "parameters").kind = "object"

\* (mutant) thought is optional in AgentPlan
AgentPlanValidOptionalThought(data) ==
    /\ ValidOptionalStr(data, "thought")
    /\ Get(data, "plan").kind = "array"
    /\ \A n \in DOMAIN Get(data, "plan").items : Get(data, "plan").items[n].kind = "string"

\* pydantic accepts AgentPlan(**data): thought: str and plan: List[str],
\* both required
AgentPlanValid(data) ==
    /\ ValidStr(data, "thought")
    /\ Get(data, "plan").kind = "array"
    /\ \A n \in DOMAIN Get(data, "plan").items : Get(data, "plan").items[n].kind = "string"

\* pydantic accepts AgentStep(**data): thought: str and
\* tool_calls: List[ToolCall], both required
AgentStepValid(data) ==
    /\ ValidStr(data, "thought")
    /\ Get(data, "tool_calls").kind = "array"
    /\ \A n \in DOMAIN Get(data, "tool_calls").items :
           ValidToolCall(Get(data, "tool_calls").items[n])

\* pydantic accepts AgentFinalResponse(**data): final_answer: str required,
\* thought: Optional[str]
AgentFinalResponseValid(data) ==
    ValidStr(data, "final_answer") /\ ValidOptionalStr(data, "thought")

\* The id a ToolCall is built with: the supplied one, as it is
ToolCallId(item) == Get(item, "id").str

\* The models, built from a dict that pydantic accepts
BuildPlan(data) ==
    AgentPlan(OptionalStr(Get(data, "thought")),
              [n \in DOMAIN Get(data, "plan").items |-> Get(data, "plan").items[n].str])
BuildStep(data) ==
    AgentStep(OptionalStr(Get(data, "thought")),
              [n \in DOMAIN Get(data, "tool_calls").items |->
                  ToolCall(ToolCallId(Get(data, "tool_calls").items[n]),
                           Get(Get(data, "tool_calls").items[n], "tool_name").str)])
BuildFinal(data) ==
    AgentFinalResponse(OptionalStr(Get(data, "thought")), Get(data, "final_answer").str)

\* (mutant) an empty final_answer is passed over
FinalAnswerGivenNonEmpty(data) ==
    In("final_answer", data) /\ Get(data, "final_answer").kind \notin {"null"}
    /\ Get(data, "final_answer") # JString("")

\* "final_answer" in data and data["final_answer"] is not None, for a dict
FinalAnswerGiven(data) ==
    In("final_answer", data) /\ Get(data, "final_answer").kind # "null"

\* Lines 48-66 for a value that is no dict. The test "plan" in data raises
\* TypeError for None, a bool or a number. A list or a str that holds one of
\* the keys raises at the ** or the subscript (TypeError) or at data.get
\* (AttributeError); one that holds none falls through to the else branch.
ClassifyOther(data, response_text) ==
    IF data.kind \in {"null", "bool", "number"} THEN Raised("TypeError", UnsupportedText)
    ELSE IF In("plan", data) \/ In("final_answer", data)
    THEN Raised("TypeError", UnsupportedText)
    ELSE IF In("tool_calls", data) THEN Raised("AttributeError", UnsupportedText)
    ELSE AgentFinalResponse(None, response_text)

\* Lines 48-66 for a dict; response_text is the stripped text
Classify(data, response_text) ==
    IF In("plan", data)
    THEN IF AgentPlanValid(data) THEN BuildPlan(data)
         ELSE Raised("ValidationError", ValidationErrorText)
    ELSE IF FinalAnswerGiven(data)
    THEN IF AgentFinalResponseValid(data) THEN BuildFinal(data)
         ELSE Raised("ValidationError", ValidationErrorText)
    ELSE IF In("tool_calls", data) /\ LenRaises(Get(data, "tool_calls"))
    THEN Raised("TypeError", UnsupportedText)
    ELSE IF In("tool_calls", data) /\ LenOf(Get(data, "tool_calls")) > 0
    THEN IF AgentStepValid(data) THEN BuildStep(data)
         ELSE Raised("ValidationError", ValidationErrorText)
    ELSE AgentFinalResponse(None, response_text)

\* The try block of parse, lines 39-66
ParseTry(response_text) ==
    LET text == Strip(response_text)
        loaded == JsonLoads(ExtractJsonFromMarkdown(text))
    IN  IF ~loaded.ok THEN Raised("JSONDecodeError", text)
        ELSE IF loaded.val.kind = "object" THEN Classify(loaded.val, text)
        ELSE ClassifyOther(loaded.val, text)

\* (mutant) parse without its last handler
ExceptJSONDecodeErrorOnly(result, response_text) ==
    IF result.type = "JSONDecodeError"
    THEN AgentFinalResponse(None, response_text)
    ELSE result

\* The handlers of parse, lines 68-80: except json.JSONDecodeError gives the
\* stripped text, except Exception the error text
ExceptHandlers(result, response_text) ==
    IF result.type \in ResponseClasses THEN result
    ELSE IF result.type = "JSONDecodeError"
    THEN AgentFinalResponse(None, response_text)
    ELSE AgentFinalResponse(None, "Error parsing response: " \o result.final_answer)

parse(response_text) ==
    ExceptHandlers(ParseTry(response_text), Strip(response_text))

\* --------------------------------------------------- the texts to be parsed
\* json.dumps of a string: the quotes, and the escapes of " \ newline and tab
RECURSIVE EscapedText(_)
EscapedText(s) ==
    IF s = "" THEN ""
    ELSE LET c == Ch(s, 1) IN
         (CASE c = "\"" -> "\\\""
            [] c = "\\" -> "\\\\"
            [] c = "\n" -> "\\n"
            [] c = "\t" -> "\\t"
            [] OTHER -> c) \o EscapedText(SubSeq(s, 2, Len(s)))

\* json.dumps with its default separators
RECURSIVE JsonDumps(_), DumpsFrom(_, _)
JsonDumps(value) ==
    CASE value.kind = "null" -> "null"
      [] value.kind \in {"bool", "number"} -> value.str
      [] value.kind = "string" -> "\"" \o EscapedText(value.str) \o "\""
      [] value.kind = "array" -> "[" \o DumpsFrom(value, 1) \o "]"
      [] value.kind = "object" -> "{" \o DumpsFrom(value, 1) \o "}"

\* The elements or members of value from the n-th on, comma separated
DumpsFrom(value, n) ==
    IF n > Len(value.items) THEN ""
    ELSE (IF n > 1 THEN ", " ELSE "")
         \o (IF value.kind = "object" THEN "\"" \o EscapedText(value.keys[n]) \o "\": " ELSE "")
         \o JsonDumps(value.items[n])
         \o DumpsFrom(value, n + 1)

\* A list of strings as a JSON array
JStrings(strings) == JArray([n \in DOMAIN strings |-> JString(strings[n])])

\* A ToolCall as the model writes it
JToolCall(tool_call) ==
    JsonObject(<<"id", "tool_name">>, <<JString(tool_call.id), JString(tool_call.tool_name)>>)

\* The dict of a response object; a thought of None is written as null or,
\* with exclude_none, left out
ModelDump(response, exclude_none) ==
    LET thought == IF response.thought # None
                   THEN JsonObject(<<"thought">>, <<JString(response.thought[1])>>)
                   ELSE IF exclude_none THEN JsonObject(<<>>, <<>>)
                   ELSE JsonObject(<<"thought">>, <<JNull>>)
        field == CASE response.type = "AgentPlan" ->
                        JsonObject(<<"plan">>, <<JStrings(response.plan)>>)
                   [] response.type = "AgentStep" ->
                        JsonObject(<<"tool_calls">>,
                            <<JArray([n \in DOMAIN response.tool_calls |->
                                         JToolCall(response.tool_calls[n])])>>)
                   [] response.type = "AgentFinalResponse" ->
                        JsonObject(<<"final_answer">>, <<JString(response.final_answer)>>)
    IN  JsonObject(thought.keys \o field.keys, thought.items \o field.items)

\* A text as a fenced json code block
Fenced(json_text) == Fence \o "json\n" \o json_text \o "\n" \o Fence

\* The ways a model wraps its JSON: bare, as a json code block, as an
\* untagged code block, with white space around it
Renderings(json_text) ==
    {json_text, Fenced(json_text), Fence \o "\n" \o json_text \o "\n" \o Fence,
     "  " \o json_text \o "\n"}

ValidUuid == "550e8400-e29b-41d4-a716-446655440000"

Thoughts == {None, Some("t")}

\* Plans, steps and final answers of the data model
ResponseObjects ==
    UNION { { AgentPlan(th, <<"s1", "s2">>),
              AgentStep(th, <<ToolCall("c1", "echo")>>),
              AgentStep(th, <<ToolCall(ValidUuid, "echo"), ToolCall("invalid-id", "calculator")>>),
              AgentFinalResponse(th, "The answer is 42"),
              AgentFinalResponse(th, "say \"hi\"\nuse ^^^code^^^") } : th \in Thoughts }

JThought == JString("t")
JCalls == JArray(<<JToolCall(ToolCall("c1", "echo"))>>)

\* JSON values that are no response object of the data model
OtherValues ==
    { JsonObject(<<>>, <<>>),
      JsonObject(<<"thought">>, <<JThought>>),
      JsonObject(<<"final_answer">>, <<JString("")>>),
      JsonObject(<<"final_answer">>, <<JNumber("42")>>),
      JsonObject(<<"thought", "final_answer", "tool_calls">>, <<JThought, JString(""), JCalls>>),
      JsonObject(<<"thought", "final_answer", "tool_calls">>, <<JThought, JNull, JCalls>>),
      JsonObject(<<"thought", "tool_calls", "final_answer">>, <<JThought, JCalls, JString("done")>>),
      JsonObject(<<"thought", "plan", "final_answer">>, <<JThought, JStrings(<<"s1">>), JString("done")>>),
      JsonObject(<<"thought", "plan">>, <<JThought, JString("do it")>>),
      JsonObject(<<"thought", "tool_calls">>, <<JThought, JArray(<<>>)>>),
      JsonObject(<<"thought", "tool_calls">>, <<JThought, JNull>>),
      JsonObject(<<"thought", "tool_calls">>,
                 <<JThought, JArray(<<JsonObject(<<"tool_name">>, <<JString("echo")>>)>>)>>),
      JNumber("42"), JNull, JString("my plan"), JStrings(<<"tool_calls">>), JArray(<<>>) }

\* Texts that hold no JSON
PlainTexts ==
    {"", "It is 8.", "This is not JSON at all", "  padded text \n",
     "{\"final_answer\": ", Fenced("not json")}

ParserInputs ==
    UNION { Renderings(JsonDumps(value)) :
              value \in {ModelDump(r, b) : r \in ResponseObjects, b \in BOOLEAN}
                        \cup OtherValues }
    \cup PlainTexts

\* -------------------------------------------------------------- the trace
\* One thing the current call did. op is "append" (a message appended to the
\* history: name its role, text its content), "llm" (one call of
\* _call_llm_with_retry or _call_llm_with_retry_stream), "client" (one call of
\* the client's call or call_stream), "execute" (one call of a tool's execute:
\* name the tool, idx the place of the tool call in the step, text what it
\* returned or raised) or "yield" (an event given to the consumer: name its
\* class, text its final_answer or token).
Entry(op, it, idx, name, text) ==
    [op |-> op, it |-> it, idx |-> idx, name |-> name, text |-> text]

Yielded(it, name, text) == Entry("yield", it, 0, name, text)
Appended(it, msg) == Entry("append", it, 0, msg.role, msg.content)

\* How a call of run / run_stream ended: kind is "returned" (run, with its
\* final_answer), "StopIteration" (run_stream's generator returned) or the
\* class of the exception that left it (text its message, max_iterations the
\* field of MaxIterationsError)
Outcome(kind, text, n) ==
    [kind |-> kind, text |-> text, max_iterations |-> n]

\* ------------------------------------------------------------ RetryConfig
\* (mutant) the retry stops one attempt late
RetryStopLate(n) == n > max_attempts

\* stop_after_attempt(max_attempts), asked after attempt number n has failed
RetryStop(n) == n >= max_attempts

\* ---------------------------------------------------------- Agent: helpers
SystemPrompt == "You are a helpful assistant"

\* (mutant) the system message and the latest message of the history only
BuildMessagesLatestOnly ==
    <<Message("system", SystemPrompt),
      conversation_history[Len(conversation_history)]>>

\* _build_messages: the system message, then the conversation history. The
\* content of the system message (the prompt, the date and the tool list) is
\* shortened to the prompt.
BuildMessages ==
    <<Message("system", SystemPrompt)>> \o conversation_history

\* (mutant) the message of ToolNotFoundError instead of dispatch's own
ToolNotFoundResultRegistryText(tool_call) ==
    [tool_call_id |-> tool_call.id, tool_name |-> tool_call.tool_name,
     result |-> "",
     error |-> Some("Tool '" \o tool_call.tool_name \o "' not found in registry")]

\* _execute_tool_calls, the branch "tool is None"
ToolNotFoundResult(tool_call) ==
    [tool_call_id |-> tool_call.id, tool_name |-> tool_call.tool_name,
     result |-> "",
     error |-> Some("Tool '" \o tool_call.tool_name \o "' not found")]

\* (mutant) the prefix test asks for the colon
ToolReturnedResultColon(tool_call, result_text) ==
    [tool_call_id |-> tool_call.id, tool_name |-> tool_call.tool_name,
     result |-> IF StartsWith(result_text, "Error:") THEN "" ELSE result_text,
     error |-> IF StartsWith(result_text, "Error:") THEN Some(result_text) ELSE None]

\* (mutant) the error text is also left in result
ToolReturnedResultKeepsText(tool_call, result_text) ==
    [tool_call_id |-> tool_call.id, tool_name |-> tool_call.tool_name,
     result |-> result_text,
     error |-> IF StartsWith(result_text, "Error") THEN Some(result_text) ELSE None]

\* _execute_tool_calls, after _execute_single_tool returned result_text
ToolReturnedResult(tool_call, result_text) ==
    [tool_call_id |-> tool_call.id, tool_name |-> tool_call.tool_name,
     result |-> IF StartsWith(result_text, "Error") THEN "" ELSE result_text,
     error |-> IF StartsWith(result_text, "Error") THEN Some(result_text) ELSE None]

\* str(ToolExecutionError(tool_name, original_error))
ToolExecutionErrorText(tool_name, original_error) ==
    "Tool '" \o tool_name \o "' execution failed: " \o original_error

\* _execute_tool_calls, the branch "except ToolExecutionError"
ToolFailedResult(tool_call, original_error) ==
    [tool_call_id |-> tool_call.id, tool_name |-> tool_call.tool_name,
     result |-> "",
     error |-> Some(ToolExecutionErrorText(tool_call.tool_name, original_error))]

\* ToolResult.success
Success(result) == result.error = None

\* _format_tool_results
RECURSIVE FormatResults(_)
FormatResults(results) ==
    IF results = <<>>
    THEN ""
    ELSE LET r == Head(results) IN
         "\n[" \o r.tool_name \o "] (ID: " \o r.tool_call_id \o ")\n"
         \o (IF Success(r)
             THEN "Success: " \o r.result \o "\n"
             ELSE "Error: " \o r.error[1] \o "\n")
         \o FormatResults(Tail(results))

FormatToolResults(results) == "Tool Results:\n" \o FormatResults(results)

\* run_stream, the handler "except LLMCallError": the final answer of the
\* error response
LLMErrorAnswer(original_error) ==
    "Error: Failed to get response from LLM - " \o original_error

\* ------------------------------------------------------------------ Init
\* agent_response before the first parse of a call
NoResponse == AgentFinalResponse(None, "")

\* Agent.__init__: an empty registry, an empty history; max_attempts is
\* validated (ge=1), max_iterations is not
Init ==
    /\ stream \in BOOLEAN
    /\ has_call_stream \in (IF stream THEN BOOLEAN ELSE {TRUE})  \* read in streaming mode only
    /\ max_iterations \in 0..MaxIterations
    /\ max_attempts \in 1..MaxAttempts
    /\ tool_registry = <<>>
    /\ conversation_history = <<>>
    /\ pc = "idle"
    /\ iteration = 0
    /\ attempt = 0
    /\ messages = <<>>
    /\ pending = <<>>
    /\ llm_response_text = ""
    /\ agent_response = NoResponse
    /\ tool_results = <<>>
    /\ last_error = ""
    /\ outcome = Outcome("none", "", 0)
    /\ trace = <<>>
    /\ calls = 0
    /\ runs = 0
    /\ func = <<>>                       \* the agent wraps its own closures
    /\ exception_types = {"Exception"}   \* and never passes exception_types
    /\ detected_type = None              \* no StreamingTokenParser is in use
    /\ RegistryUnused
    /\ StreamingUnused

\* The generator's frame is gone once the call has ended
DropLocals ==
    /\ iteration' = 0
    /\ attempt' = 0
    /\ messages' = <<>>
    /\ pending' = <<>>
    /\ llm_response_text' = ""
    /\ agent_response' = NoResponse
    /\ tool_results' = <<>>
    /\ last_error' = ""

\* The call ends: by a return, or by an exception that leaves run_stream
\* (and run, which catches nothing)
Finish(how) ==
    /\ pc' = "idle"
    /\ outcome' = how
    /\ DropLocals

\* ------------------------------------------------- Agent.register_tool etc.
\* No run or run_stream call has been made yet
Fresh == outcome.kind = "none"

\* ToolRegistry.register: insert, or overwrite the tool of that name
RegisterTool(tool) ==
    /\ pc = "idle"
    /\ Fresh
    /\ tool_registry' = (tool.name :> tool) @@ tool_registry
    /\ UNCHANGED <<config, conversation_history, pc, locals, outcome, trace, calls, runs>>

\* ToolRegistry.unregister of a registered tool
UnregisterTool(name) ==
    /\ pc = "idle"
    /\ Fresh
    /\ name \in DOMAIN tool_registry
    /\ tool_registry' = [n \in DOMAIN tool_registry \ {name} |-> tool_registry[n]]
    /\ UNCHANGED <<config, conversation_history, pc, locals, outcome, trace, calls, runs>>

\* (mutant) reset also clears the tool registry
ResetAll ==
    /\ pc = "idle"
    /\ conversation_history' = <<>>
    /\ tool_registry' = <<>>
    /\ UNCHANGED <<config, pc, locals, outcome, trace, calls, runs>>

\* Agent.reset
Reset ==
    /\ pc = "idle"
    /\ conversation_history' = <<>>
    /\ UNCHANGED <<config, tool_registry, pc, locals, outcome, trace, calls, runs>>

\* ------------------------------------------------------- Agent.run_stream
\* (mutant) a call starts from an empty history
StartRunFreshHistory(user_input) ==
    /\ pc = "idle"
    /\ runs < MaxRuns
    /\ ScriptLeft(calls)
    /\ runs' = runs + 1
    /\ conversation_history' = <<Message("user", user_input)>>
    /\ trace' = <<Appended(0, Message("user", user_input))>>
    /\ outcome' = Outcome("running", "", 0)
    /\ pc' = "loop"
    /\ DropLocals
    /\ UNCHANGED <<config, tool_registry, calls>>

\* run_stream(user_input), called by run or by the user and advanced to the
\* head of the loop. run resumes the generator after every event but an
\* AgentFinalResponseEvent, as a consumer that iterates to the end does, so
\* who consumes it shows only there.
StartRun(user_input) ==
    /\ pc = "idle"
    /\ runs < MaxRuns
    /\ ScriptLeft(calls)
    /\ runs' = runs + 1
    /\ conversation_history' =
           Append(conversation_history, Message("user", user_input))
    /\ trace' = <<Appended(0, Message("user", user_input))>>
    /\ outcome' = Outcome("running", "", 0)
    /\ pc' = "loop"
    /\ DropLocals
    /\ UNCHANGED <<config, tool_registry, calls>>

\* (mutant) range(1, self.max_iterations + 2)
RangeHasNextOffByOne(i) == i <= max_iterations

\* for iteration in range(1, self.max_iterations + 1): is there a value
\* after i
RangeHasNext(i) == i + 1 <= max_iterations

\* The head of the loop: the next iteration builds the messages and, in
\* streaming mode, yields AgentStreamStart; the exhausted loop raises
\* MaxIterationsError
LoopHead ==
    /\ pc = "loop"
    /\ IF RangeHasNext(iteration)
       THEN /\ iteration' = iteration + 1
            /\ messages' = BuildMessages
            /\ attempt' = 0
            /\ IF stream
               THEN /\ pc' = "stream_start"
                    /\ trace' = Append(trace,
                                  Yielded(iteration + 1, "AgentStreamStart", ""))
               ELSE /\ pc' = "llm"
                    /\ trace' = Append(trace,
                                  Entry("llm", iteration + 1, 0, "_call_llm_with_retry", ""))
            /\ UNCHANGED <<pending, llm_response_text, agent_response,
                           tool_results, last_error, outcome>>
       ELSE /\ Finish(Outcome("MaxIterationsError", "", max_iterations))
            /\ UNCHANGED trace
    /\ UNCHANGED <<config, tool_registry, conversation_history, calls, runs>>

\* The event class run_stream yields for a parsed response
EventOf(response) ==
    CASE response.type = "AgentPlan" -> "AgentPlanEvent"
      [] response.type = "AgentStep" -> "AgentStepEvent"
      [] response.type = "AgentFinalResponse" -> "AgentFinalResponseEvent"

\* (mutant) the plan branch returns instead of continuing
SuspendedAtPlanReturns(event) ==
    CASE event = "AgentPlanEvent" -> "final_yielded"
      [] event = "AgentStepEvent" -> "step_yielded"
      [] event = "AgentFinalResponseEvent" -> "final_yielded"

\* Where the generator is suspended after yielding that event
SuspendedAt(event) ==
    CASE event = "AgentPlanEvent" -> "plan_yielded"
      [] event = "AgentStepEvent" -> "step_yielded"
      [] event = "AgentFinalResponseEvent" -> "final_yielded"

\* (mutant) a final response is yielded without its text being appended
ClassifyAndYieldFinalNotAppended(text, tr) ==
    LET response == parse(text)
        msg == Message("assistant", text)
    IN  /\ agent_response' = response
        /\ conversation_history' =
               IF response.type = "AgentFinalResponse" THEN conversation_history
               ELSE Append(conversation_history, msg)
        /\ trace' = tr \o (IF response.type = "AgentFinalResponse" THEN <<>>
                            ELSE <<Appended(iteration, msg)>>)
                      \o <<Yielded(iteration, EventOf(response), response.final_answer)>>
        /\ pc' = SuspendedAt(EventOf(response))

\* run_stream lines 424-457: parse the text, append it to the history as an
\* assistant message, yield the event of the response. tr is the trace so far.
ClassifyAndYield(text, tr) ==
    LET response == parse(text)
        msg == Message("assistant", text)
    IN  /\ agent_response' = response
        /\ conversation_history' = Append(conversation_history, msg)
        /\ trace' = tr \o <<Appended(iteration, msg),
                            Yielded(iteration, EventOf(response), response.final_answer)>>
        /\ pc' = SuspendedAt(EventOf(response))

\* Non-streaming: one attempt of the client's call returns text
LLMReturns(text) ==
    /\ pc = "llm"
    /\ text \in ClientResponses(calls)
    /\ calls' = calls + 1
    /\ llm_response_text' = text
    /\ attempt' = 0
    /\ ClassifyAndYield(text,
           Append(trace, Entry("client", iteration, attempt + 1, "call", text)))
    /\ UNCHANGED <<config, tool_registry, iteration, messages, pending,
                   tool_results, last_error, outcome, runs>>

\* (mutant) the first failed attempt is final: no retry of the client
LLMRaisesNoRetry(exc) ==
    /\ pc = "llm"
    /\ ScriptLeft(calls)
    /\ calls' = calls + 1
    /\ last_error' = exc
    /\ attempt' = 0
    /\ trace' = Append(Append(trace, Entry("client", iteration, attempt + 1, "call", exc)),
                       Yielded(iteration, "AgentFinalResponseEvent", LLMErrorAnswer(exc)))
    /\ pc' = "final_yielded"
    /\ UNCHANGED <<config, tool_registry, conversation_history, iteration,
                   messages, pending, llm_response_text, agent_response,
                   tool_results, outcome, runs>>

\* Non-streaming: one attempt of the client's call raises. tenacity tries
\* again, or re-raises after the last attempt: _call_llm_with_retry wraps that
\* in LLMCallError, which run_stream turns into a final response.
LLMRaises(exc) ==
    LET n == attempt + 1
        tr == Append(trace, Entry("client", iteration, n, "call", exc))
    IN  /\ pc = "llm"
        /\ ScriptLeft(calls)
        /\ calls' = calls + 1
        /\ last_error' = exc
        /\ IF RetryStop(n)
           THEN /\ attempt' = 0
                /\ trace' = Append(tr, Yielded(iteration, "AgentFinalResponseEvent",
                                               LLMErrorAnswer(exc)))
                /\ pc' = "final_yielded"
           ELSE /\ attempt' = n
                /\ trace' = tr
                /\ UNCHANGED pc
        /\ UNCHANGED <<config, tool_registry, conversation_history, iteration,
                       messages, pending, llm_response_text, agent_response,
                       tool_results, outcome, runs>>

\* (mutant) a chunk is added to the text without being yielded as a token
StreamDeliverSilent(chunks, acc, tr) ==
    IF chunks = <<>>
    THEN /\ pc' = "stream_end"
         /\ pending' = <<>>
         /\ llm_response_text' = acc
         /\ trace' = Append(tr, Yielded(iteration, "AgentStreamEnd", ""))
    ELSE /\ pc' = "streaming"
         /\ pending' = Tail(chunks)
         /\ llm_response_text' = acc \o Head(chunks)
         /\ trace' = IF Tail(chunks) = <<>> THEN tr
                      ELSE Append(tr, Yielded(iteration, "AgentToken", Head(chunks)))

\* Streaming, lines 408-411: the loop over the chunks. With chunks left, the
\* next one is added to the text and yielded as an AgentToken; at the end of
\* the stream AgentStreamEnd is yielded. acc is the text so far.
StreamDeliver(chunks, acc, tr) ==
    IF chunks = <<>>
    THEN /\ pc' = "stream_end"
         /\ pending' = <<>>
         /\ llm_response_text' = acc
         /\ trace' = Append(tr, Yielded(iteration, "AgentStreamEnd", ""))
    ELSE /\ pc' = "streaming"
         /\ pending' = Tail(chunks)
         /\ llm_response_text' = acc \o Head(chunks)
         /\ trace' = Append(tr, Yielded(iteration, "AgentToken", Head(chunks)))

\* The trace once _call_llm_with_retry_stream has been called
StreamCalled ==
    Append(trace, Entry("llm", iteration, 0, "_call_llm_with_retry_stream", ""))

\* (mutant) the AttributeError is wrapped in LLMCallError and turned into a
\* final response
StreamNoMethodAsFinal ==
    /\ pc = "stream_start"
    /\ ~has_call_stream
    /\ trace' = Append(StreamCalled,
                       Yielded(iteration, "AgentFinalResponseEvent",
                               LLMErrorAnswer("LLM client does not support streaming.")))
    /\ pc' = "final_yielded"
    /\ UNCHANGED <<config, tool_registry, conversation_history, locals, outcome,
                   calls, runs>>

\* Streaming, resumed after AgentStreamStart, the client has no call_stream:
\* _call_stream raises AttributeError when the generator is first advanced,
\* outside the try of _call_llm_with_retry_stream, and run_stream catches
\* LLMCallError only
StreamNoMethod ==
    /\ pc = "stream_start"
    /\ ~has_call_stream
    /\ trace' = StreamCalled
    /\ Finish(Outcome("AttributeError", "", 0))
    /\ UNCHANGED <<config, tool_registry, conversation_history, calls, runs>>

\* Streaming, resumed after AgentStreamStart: call_stream is called and will
\* deliver these chunks
StreamOpen(chunks) ==
    /\ pc = "stream_start"
    /\ has_call_stream
    /\ calls' = calls + 1
    /\ StreamDeliver(chunks, "",
           Append(StreamCalled, Entry("client", iteration, 1, "call_stream", "")))
    /\ UNCHANGED <<config, tool_registry, conversation_history, iteration,
                   attempt, messages, agent_response, tool_results, last_error,
                   outcome, runs>>

\* Streaming, resumed after an AgentToken
StreamNext ==
    /\ pc = "streaming"
    /\ StreamDeliver(pending, llm_response_text, trace)
    /\ UNCHANGED <<config, tool_registry, conversation_history, iteration,
                   attempt, messages, agent_response, tool_results, last_error,
                   outcome, calls, runs>>

\* Streaming: call_stream raises, at once or between two chunks. Nothing
\* retries it and nothing wraps it: the exception leaves run_stream.
StreamRaises(exc) ==
    /\ has_call_stream
    /\ \/ /\ pc = "stream_start"
          /\ ScriptLeft(calls)
          /\ calls' = calls + 1
          /\ trace' = Append(StreamCalled,
                             Entry("client", iteration, 1, "call_stream", exc))
       \/ /\ pc = "streaming"
          /\ UNCHANGED <<trace, calls>>
    /\ Finish(Outcome("Exception", exc, 0))
    /\ UNCHANGED <<config, tool_registry, conversation_history, runs>>

\* Streaming, resumed after AgentStreamEnd
ResumeStreamEnd ==
    /\ pc = "stream_end"
    /\ ClassifyAndYield(llm_response_text, trace)
    /\ UNCHANGED <<config, tool_registry, iteration, attempt, messages,
                   pending, llm_response_text, tool_results, last_error,
                   outcome, calls, runs>>

\* Resumed after AgentPlanEvent: continue
ResumePlan ==
    /\ pc = "plan_yielded"
    /\ pc' = "loop"
    /\ UNCHANGED <<config, tool_registry, conversation_history, locals,
                   outcome, trace, calls, runs>>

\* Resumed after AgentStepEvent: _execute_tool_calls starts
ResumeStep ==
    /\ pc = "step_yielded"
    /\ pc' = "dispatch"
    /\ tool_results' = <<>>
    /\ attempt' = 0
    /\ UNCHANGED <<config, tool_registry, conversation_history, iteration,
                   messages, pending, llm_response_text, agent_response,
                   last_error, outcome, trace, calls, runs>>

\* ---------------------------------------------- Agent._execute_tool_calls
\* The tool call the loop of _execute_tool_calls stands at
CurrentIndex == Len(tool_results) + 1
CurrentCall == agent_response.tool_calls[CurrentIndex]
InDispatch == pc = "dispatch" /\ CurrentIndex <= Len(agent_response.tool_calls)

\* self.tool_registry.get(name) is None
ToolMissing ==
    /\ InDispatch
    /\ CurrentCall.tool_name \notin DOMAIN tool_registry
    /\ tool_results' = Append(tool_results, ToolNotFoundResult(CurrentCall))
    /\ UNCHANGED <<config, tool_registry, conversation_history, pc, iteration,
                   attempt, messages, pending, llm_response_text, agent_response,
                   last_error, outcome, trace, calls, runs>>

\* One attempt of tool.execute returns result_text
ToolReturns(result_text) ==
    /\ InDispatch
    /\ CurrentCall.tool_name \in DOMAIN tool_registry
    /\ tool_registry[CurrentCall.tool_name].raises # "always"
    /\ result_text = tool_registry[CurrentCall.tool_name].output
    /\ trace' = Append(trace, Entry("execute", iteration, CurrentIndex,
                                    CurrentCall.tool_name, result_text))
    /\ tool_results' = Append(tool_results, ToolReturnedResult(CurrentCall, result_text))
    /\ attempt' = 0
    /\ UNCHANGED <<config, tool_registry, conversation_history, pc, iteration,
                   messages, pending, llm_response_text, agent_response,
                   last_error, outcome, calls, runs>>

\* One attempt of tool.execute raises: tenacity tries again, or re-raises
\* after the last attempt, which _execute_single_tool wraps in
\* ToolExecutionError and _execute_tool_calls records
ToolRaises(exc) ==
    LET n == attempt + 1 IN
    /\ InDispatch
    /\ CurrentCall.tool_name \in DOMAIN tool_registry
    /\ tool_registry[CurrentCall.tool_name].raises # "never"
    /\ trace' = Append(trace, Entry("execute", iteration, CurrentIndex,
                                    CurrentCall.tool_name, exc))
    /\ last_error' = exc
    /\ IF RetryStop(n)
       THEN /\ attempt' = 0
            /\ tool_results' = Append(tool_results, ToolFailedResult(CurrentCall, exc))
       ELSE /\ attempt' = n
            /\ UNCHANGED tool_results
    /\ UNCHANGED <<config, tool_registry, conversation_history, pc, iteration,
                   messages, pending, llm_response_text, agent_response,
                   outcome, calls, runs>>

\* (mutant) AgentToolResultsEvent is yielded before the results are appended
FinishDispatchYieldFirst ==
    LET msg == Message("user", FormatToolResults(tool_results)) IN
    /\ pc = "dispatch"
    /\ Len(tool_results) + 1 > Len(agent_response.tool_calls)
    /\ conversation_history' = Append(conversation_history, msg)
    /\ trace' = trace \o <<Yielded(iteration, "AgentToolResultsEvent", ""),
                           Appended(iteration, msg)>>
    /\ pc' = "results_yielded"
    /\ UNCHANGED <<config, tool_registry, locals, outcome, calls, runs>>

\* run_stream lines 444-451, after _execute_tool_calls returned: the results
\* are formatted and appended to the history as a user message, then
\* AgentToolResultsEvent is yielded
FinishDispatch ==
    LET msg == Message("user", FormatToolResults(tool_results)) IN
    /\ pc = "dispatch"
    /\ CurrentIndex > Len(agent_response.tool_calls)
    /\ conversation_history' = Append(conversation_history, msg)
    /\ trace' = trace \o <<Appended(iteration, msg),
                           Yielded(iteration, "AgentToolResultsEvent", "")>>
    /\ pc' = "results_yielded"
    /\ UNCHANGED <<config, tool_registry, locals, outcome, calls, runs>>

\* Resumed after AgentToolResultsEvent: continue
ResumeResults ==
    /\ pc = "results_yielded"
    /\ pc' = "loop"
    /\ UNCHANGED <<config, tool_registry, conversation_history, locals,
                   outcome, trace, calls, runs>>

\* The latest event the generator yielded
LastEvent == trace[Len(trace)]

\* (mutant) the final branch continues instead of returning
ResumeFinalContinues ==
    /\ pc = "final_yielded"
    /\ pc' = "loop"
    /\ UNCHANGED <<config, tool_registry, conversation_history, locals,
                   outcome, trace, calls, runs>>

\* run_stream resumed after AgentFinalResponseEvent by a consumer that
\* iterates to the end: return
ResumeFinal ==
    /\ pc = "final_yielded"
    /\ Finish(Outcome("StopIteration", "", 0))
    /\ UNCHANGED <<config, tool_registry, conversation_history, trace, calls, runs>>

\* (mutant) run returns the answer of the parsed response, not the event's
RunReturnsParsed ==
    /\ pc = "final_yielded"
    /\ trace[Len(trace)].name = "AgentFinalResponseEvent"
    /\ Finish(Outcome("returned", agent_response.final_answer, 0))
    /\ UNCHANGED <<config, tool_registry, conversation_history, trace, calls, runs>>

\* Agent.run lines 479-487: the event is an AgentFinalResponseEvent, run takes
\* its final_answer, leaves the loop and returns it
RunReturns ==
    /\ pc = "final_yielded"
    /\ LastEvent.name = "AgentFinalResponseEvent"
    /\ Finish(Outcome("returned", LastEvent.text, 0))
    /\ UNCHANGED <<config, tool_registry, conversation_history, trace, calls, runs>>

\* ------------------------------------------------------------------- Next
Next ==
    \/ \E tool \in Tools : RegisterTool(tool)
    \/ \E name \in ToolNames : UnregisterTool(name)
    \/ Reset
    \/ \E user_input \in UserInputs : StartRun(user_input)
    \/ LoopHead
    \/ \E text \in ClientResponses(calls) : LLMReturns(text)
    \/ \E exc \in ClientExceptions : LLMRaises(exc)
    \/ StreamNoMethod
    \/ \E text \in ClientResponses(calls) : \E chunks \in Chunkings(text) : StreamOpen(chunks)
    \/ StreamNext
    \/ \E exc \in ClientExceptions : StreamRaises(exc)
    \/ ResumeStreamEnd
    \/ ResumePlan
    \/ ResumeStep
    \/ ToolMissing
    \/ \E tool \in Tools : ToolReturns(tool.output)
    \/ \E exc \in ToolExceptions : ToolRaises(exc)
    \/ FinishDispatch
    \/ ResumeResults
    \/ ResumeFinal
    \/ RunReturns

Spec == Init /\ [][Next]_vars

\* ===================================================================
\* Properties of the agent loop
\* ===================================================================
Idx == DOMAIN trace

IsYield(i, name) == trace[i].op = "yield" /\ trace[i].name = name

\* The places of the trace with that operation
Ops(op) == {i \in Idx : trace[i].op = op}

\* The AgentFinalResponseEvents of the current call
FinalIdx == {i \in Idx : IsYield(i, "AgentFinalResponseEvent")}

\* The plan and step events of the current call
ContinueIdx ==
    {i \in Idx : IsYield(i, "AgentPlanEvent") \/ IsYield(i, "AgentStepEvent")}

\* Attempts of the client that raised
ClientFailures == {i \in Ops("client") : trace[i].text \in ClientExceptions}

\* A call of run / run_stream has ended
Ended == pc = "idle" /\ outcome.kind # "none"

\* An exception other than MaxIterationsError left the call
Escaped == outcome.kind \in {"Exception", "AttributeError"}

\* C1: with max_iterations = N >= 1, a run whose every LLM response is a step
\* or a plan makes exactly N LLM calls (N calls of the client when no attempt
\* fails) and then raises MaxIterationsError carrying N; no iteration N+1 is
\* ever started.
C1_MaxIterations ==
    /\ iteration <= max_iterations
    /\ \A i \in Idx : trace[i].it <= max_iterations
    /\ Cardinality(Ops("llm")) <= max_iterations
    /\ (Ended /\ max_iterations >= 1 /\ FinalIdx = {} /\ ~Escaped) =>
          /\ outcome = Outcome("MaxIterationsError", "", max_iterations)
          /\ Cardinality(Ops("llm")) = max_iterations
          /\ Cardinality(ContinueIdx) = max_iterations
          /\ Cardinality(Ops("client") \ ClientFailures) = max_iterations
          /\ ClientFailures = {} => Cardinality(Ops("client")) = max_iterations
    /\ (Ended /\ outcome.kind = "MaxIterationsError") =>
          /\ outcome.max_iterations = max_iterations
          /\ Cardinality(Ops("llm")) = max_iterations
          /\ FinalIdx = {}

\* C1 witness: a run of two steps ended with MaxIterationsError carrying 2
C1_Witness ==
    /\ Ended
    /\ max_iterations = 2
    /\ outcome = Outcome("MaxIterationsError", "", 2)
    /\ Cardinality({i \in Idx : IsYield(i, "AgentStepEvent")}) = 2
    /\ Cardinality(Ops("client")) = 2

\* C2: an AgentFinalResponseEvent is the last thing a run does: it is the
\* last entry of the trace (no LLM call, tool execution, history append or
\* event follows it), there is at most one, and the generator is suspended at
\* it or gone.
C2_FinalIsLast ==
    FinalIdx # {} =>
        /\ FinalIdx = {Len(trace)}
        /\ pc \in {"final_yielded", "idle"}
        /\ pc = "idle" => outcome.kind \in {"returned", "StopIteration"}

\* C2 witness: a run that executed tools and then ended on its final answer
C2_Witness ==
    /\ Ended
    /\ outcome.kind = "StopIteration"
    /\ Ops("execute") # {}
    /\ FinalIdx = {Len(trace)}

\* The LLM call of an iteration has failed for good: the attempt of the
\* client's call at which the retry stops raised, or call_stream raised
\* (streaming has no retry)
LLMCallFailed ==
    \/ \E i \in ClientFailures : trace[i].name = "call" /\ trace[i].idx >= max_attempts
    \/ \E i \in ClientFailures : trace[i].name = "call_stream"
    \/ outcome.kind = "Exception"

\* C3: when the LLM call of an iteration fails after its retries, streaming or
\* not, the call ends on one AgentFinalResponseEvent whose final_answer begins
\* with "Error:", and no exception leaves run or run_stream.
C3_LLMFailureIsFinalResponse ==
    (Ended /\ LLMCallFailed) =>
        /\ outcome.kind \in {"returned", "StopIteration"}
        /\ FinalIdx = {Len(trace)}
        /\ StartsWith(LastEvent.text, "Error:")

\* The attempts of tool.execute made for the idx-th tool call of iteration it
ExecutesOf(it, idx) ==
    {i \in Ops("execute") : trace[i].it = it /\ trace[i].idx = idx}

\* The attempts among them that raised
RaisedOf(it, idx) ==
    {i \in ExecutesOf(it, idx) : trace[i].text \in ToolExceptions}

\* _execute_tool_calls is running or has returned, and its results are held
Dispatching == pc \in {"dispatch", "results_yielded"}

\* C4: dispatch of a step with N tool calls gives N results in input order,
\* the i-th with the id and the tool_name of the i-th call; an unregistered
\* tool gives the error "Tool '<name>' not found" with no execute at all, a
\* registered one is executed, the calls are worked in order, and every step
\* of an ended call got its results whatever failed.
C4_Dispatch ==
    /\ Dispatching =>
          LET tool_calls == agent_response.tool_calls IN
          /\ Len(tool_results) <= Len(tool_calls)
          /\ pc = "results_yielded" => Len(tool_results) = Len(tool_calls)
          /\ \A i \in DOMAIN tool_results :
                /\ tool_results[i].tool_call_id = tool_calls[i].id
                /\ tool_results[i].tool_name = tool_calls[i].tool_name
                /\ IF tool_calls[i].tool_name \in DOMAIN tool_registry
                   THEN ExecutesOf(iteration, i) # {}
                   ELSE /\ tool_results[i].error =
                              Some("Tool '" \o tool_calls[i].tool_name \o "' not found")
                        /\ tool_results[i].result = ""
                        /\ ExecutesOf(iteration, i) = {}
          /\ \A i \in DOMAIN tool_calls :
                i > Len(tool_results) + 1 => ExecutesOf(iteration, i) = {}
    /\ \A i, j \in Ops("execute") :
          (i < j /\ trace[i].it = trace[j].it) => trace[i].idx <= trace[j].idx
    /\ Ended =>
          \A i \in Idx : IsYield(i, "AgentStepEvent") =>
              \E j \in Idx : /\ j > i
                             /\ IsYield(j, "AgentToolResultsEvent")
                             /\ trace[j].it = trace[i].it

\* C4 witness: of two tool calls the first names an unregistered tool and the
\* second, the calculator, succeeded
C4_Witness ==
    /\ pc = "results_yielded"
    /\ Len(tool_results) = 2
    /\ tool_results[1].error = Some("Tool 'echo' not found")
    /\ tool_results[2] = [tool_call_id |-> "c2", tool_name |-> "calculator",
                          result |-> "8", error |-> None]

\* C5: a registered tool whose execute raises on every attempt is executed
\* exactly max_attempts times (no tool call is ever executed more often); the
\* result then has result "" and the error text of ToolExecutionError with the
\* exception of the last attempt, and dispatch goes on to the end of the step.
C5_FailingToolRetried ==
    /\ \A i \in Ops("execute") :
          Cardinality(ExecutesOf(trace[i].it, trace[i].idx)) <= max_attempts
    /\ Dispatching =>
          \A i \in DOMAIN tool_results :
              LET ex == ExecutesOf(iteration, i) IN
              (ex # {} /\ RaisedOf(iteration, i) = ex) =>
                  /\ Cardinality(ex) = max_attempts
                  /\ tool_results[i].result = ""
                  /\ tool_results[i].error # None
                  /\ \E e \in ex :
                        /\ \A f \in ex : f <= e
                        /\ tool_results[i].error =
                              Some("Tool '" \o tool_results[i].tool_name
                                   \o "' execution failed: " \o trace[e].text)
    /\ Dispatching =>
          \A i \in DOMAIN agent_response.tool_calls :
              LET name == agent_response.tool_calls[i].tool_name IN
              (/\ i <= Len(tool_results)
               /\ name \in DOMAIN tool_registry
               /\ tool_registry[name].raises = "always") =>
                  /\ Cardinality(RaisedOf(iteration, i)) = max_attempts
                  /\ ~Success(tool_results[i])
    /\ outcome.kind \notin {"ToolExecutionError", "ToolNotFoundError"}

\* C5 witness: with max_attempts = 2 the first tool raised twice and was
\* recorded as failed, and the second tool call of the step succeeded
C5_Witness ==
    /\ pc = "results_yielded"
    /\ max_attempts = 2
    /\ Len(tool_results) = 2
    /\ Cardinality(RaisedOf(iteration, 1)) = 2
    /\ tool_results[1].error = Some("Tool 'echo' execution failed: boom")
    /\ tool_results[2].result = "8"

\* C6: a tool that returned a text starting with "Error" gives a result whose
\* error is that whole text and whose result is ""; the return ends the
\* attempts of that call, so a tool that never raises was executed once.
C6_ErrorTextNotRetried ==
    Dispatching =>
        \A i \in DOMAIN tool_results :
            LET ex == ExecutesOf(iteration, i) IN
            \A e \in ex \ RaisedOf(iteration, i) :
                /\ \A f \in ex : f <= e
                /\ ex \ RaisedOf(iteration, i) = {e}
                /\ StartsWith(trace[e].text, "Error") =>
                      /\ tool_results[i].error = Some(trace[e].text)
                      /\ tool_results[i].result = ""
                      /\ tool_registry[tool_results[i].tool_name].raises = "never"
                            => ex = {e}
                /\ ~StartsWith(trace[e].text, "Error") =>
                      /\ tool_results[i].error = None
                      /\ tool_results[i].result = trace[e].text

\* C6 witness: the echo tool returned "Errors: 0", a text that starts with
\* "Error" and has no colon after it, in its only execution
C6_Witness ==
    /\ pc = "results_yielded"
    /\ tool_results[1].error = Some("Errors: 0")
    /\ tool_results[1].result = ""
    /\ Cardinality(ExecutesOf(iteration, 1)) = 1

\* The entries of the trace that belong to iteration k
InIteration(k) == {j \in Idx : trace[j].it = k}

\* An event that opens the LLM call of an iteration
StartsLLMCall(j) == trace[j].op = "llm" \/ IsYield(j, "AgentStreamStart")

\* C7: an iteration classified as a plan yields one AgentPlanEvent, right
\* after the assistant message, executes no tool, appends no user message and
\* yields no step, results or final event; what follows is the LLM call of the
\* next iteration, and the call ends after a plan only with
\* MaxIterationsError, the plan being that of the last iteration.
C7_PlanContinues ==
    \A i \in Idx : IsYield(i, "AgentPlanEvent") =>
        LET k == trace[i].it IN
        /\ i > 1
        /\ trace[i - 1].op = "append" /\ trace[i - 1].name = "assistant"
        /\ \A j \in InIteration(k) \ {i} :
              /\ trace[j].op # "execute"
              /\ ~(trace[j].op = "append" /\ trace[j].name = "user")
              /\ trace[j].op = "yield" =>
                    trace[j].name \in {"AgentStreamStart", "AgentToken", "AgentStreamEnd"}
              /\ j < i
        /\ i < Len(trace) => trace[i + 1].it = k + 1 /\ StartsLLMCall(i + 1)
        /\ i = Len(trace) =>
              \/ pc = "plan_yielded" /\ iteration = k
              \/ pc = "loop" /\ iteration = k
              \/ /\ Ended
                 /\ k = max_iterations
                 /\ outcome = Outcome("MaxIterationsError", "", max_iterations)

\* C7 witness: a plan in iteration 1 was followed by the LLM call of
\* iteration 2
C7_Witness ==
    \E i \in Idx :
        /\ IsYield(i, "AgentPlanEvent")
        /\ trace[i].it = 1
        /\ i < Len(trace)
        /\ trace[i + 1].it = 2
        /\ Ops("execute") = {}

\* The last message of a non-empty list
Last(s) == s[Len(s)]

\* C8: in an iteration classified as a step, AgentStepEvent comes first, then
\* the executions of its tool calls and nothing else, then the append of the
\* formatted results as a user message, then AgentToolResultsEvent, then the
\* LLM call of the next iteration, whose messages end with that user message.
C8_StepOrder ==
    /\ \A s \in Idx : IsYield(s, "AgentStepEvent") =>
          LET k == trace[s].it
              r == {j \in InIteration(k) : IsYield(j, "AgentToolResultsEvent")}
          IN  /\ \A j \in InIteration(k) : j > s =>
                    \/ trace[j].op = "execute" /\ \A q \in r : j < q - 1
                    \/ /\ trace[j].op = "append" /\ trace[j].name = "user"
                       /\ StartsWith(trace[j].text, "Tool Results:\n")
                       /\ \A q \in r : j = q - 1
                    \/ j \in r /\ j > s + 1 /\ trace[j - 1].op = "append"
              /\ Cardinality(r) <= 1
              /\ \A q \in r : q < Len(trace) =>
                    trace[q + 1].it = k + 1 /\ StartsLLMCall(q + 1)
              /\ \A j \in Idx : (trace[j].it > k /\ StartsLLMCall(j)) =>
                    \E q \in r : q < j
              /\ (r = {} /\ k = iteration) => pc \in {"step_yielded", "dispatch"}
    /\ pc = "results_yielded" =>
          /\ IsYield(Len(trace), "AgentToolResultsEvent")
          /\ Len(tool_results) = Len(agent_response.tool_calls)
          /\ Last(conversation_history) =
                Message("user", FormatToolResults(tool_results))
          /\ trace[Len(trace) - 1].text = FormatToolResults(tool_results)
    /\ \A j \in Idx :
          (/\ StartsLLMCall(j)
           /\ trace[j].it = iteration
           /\ pc \in {"llm", "stream_start"}
           /\ IsYield(j - 1, "AgentToolResultsEvent")) =>
              /\ Last(messages) = Message("user", trace[j - 2].text)
              /\ Last(conversation_history) = Last(messages)

\* C8 witness: the LLM call of iteration 2 is under way after a step whose
\* tools were executed, and the messages it was given end with the results
C8_Witness ==
    /\ pc = "llm"
    /\ iteration = 2
    /\ Ops("execute") # {}
    /\ \E q \in Idx : IsYield(q, "AgentToolResultsEvent")
    /\ Last(messages).role = "user"
    /\ StartsWith(Last(messages).content, "Tool Results:\n\n[echo] (ID: c1)\n")

\* s is a prefix of t
IsPrefix(s, t) == Len(s) <= Len(t) /\ SubSeq(t, 1, Len(s)) = s

\* The text of the AgentTokens of iteration it, in the order of the trace tr
RECURSIVE TokenText(_, _)
TokenText(tr, it) ==
    IF tr = <<>>
    THEN ""
    ELSE (IF Head(tr).op = "yield" /\ Head(tr).name = "AgentToken" /\ Head(tr).it = it
          THEN Head(tr).text
          ELSE "")
         \o TokenText(Tail(tr), it)

\* The messages the current call appended to the history, in order
RECURSIVE AppendedMessages(_)
AppendedMessages(tr) ==
    IF tr = <<>>
    THEN <<>>
    ELSE (IF Head(tr).op = "append"
          THEN <<Message(Head(tr).name, Head(tr).text)>>
          ELSE <<>>)
         \o AppendedMessages(Tail(tr))

\* One step keeps the history as a prefix of the new one, or it is a reset:
\* the history becomes empty between two calls, with the tool registry kept.
\* No step changes the configuration, and a step that changes the registry
\* leaves the history alone.
HistoryStep ==
    /\ UNCHANGED config
    /\ \/ IsPrefix(conversation_history, conversation_history')
       \/ /\ conversation_history' = <<>>
          /\ pc = "idle" /\ pc' = "idle"
          /\ UNCHANGED <<tool_registry, outcome, trace, runs>>
    /\ tool_registry' # tool_registry => UNCHANGED conversation_history

\* Every text the LLM gave is the content of an assistant message appended
\* next, whatever parse made of it; the history of a running call ends with
\* the messages the call appended
ResponsesAppended ==
    /\ \A i \in Ops("client") \ ClientFailures :
          trace[i].name = "call" =>
              /\ i < Len(trace)
              /\ trace[i + 1] = Appended(trace[i].it, Message("assistant", trace[i].text))
    /\ \A i \in Idx : IsYield(i, "AgentStreamEnd") =>
          IF i = Len(trace)
          THEN pc = "stream_end"
          ELSE trace[i + 1] =
                   Appended(trace[i].it,
                            Message("assistant", TokenText(trace, trace[i].it)))
    /\ pc # "idle" =>
          LET apps == AppendedMessages(trace)
              n == Len(conversation_history)
          IN  /\ Len(apps) <= n
              /\ SubSeq(conversation_history, n - Len(apps) + 1, n) = apps

\* C9: over any sequence of calls the history only grows by appending, every
\* LLM response text is appended as an assistant message whatever its class,
\* and only reset shrinks the history, to empty, changing neither the tool
\* registry nor the configuration.
C9_HistoryAppendOnly == [][HistoryStep]_vars /\ []ResponsesAppended

\* C9 witness: reset has emptied the history after a call that appended a
\* plan and a raw text, and the registered tools are still there
C9_Witness ==
    /\ pc = "idle"
    /\ Ended
    /\ conversation_history = <<>>
    /\ tool_registry # <<>>
    /\ \E i, j \in Ops("append") :
          /\ trace[i].name = "assistant" /\ trace[i].text = RespPlan
          /\ trace[j].name = "assistant" /\ trace[j].text = RespRaw

\* The final_answer of the event at place i of the trace is that of the
\* response parsed from the assistant message before it, or the error text
\* made from the exception of the client's last attempt
AnswerOf(i) ==
    \/ /\ trace[i - 1].op = "append"
       /\ trace[i - 1].name = "assistant"
       /\ trace[i].text = parse(trace[i - 1].text).final_answer
    \/ /\ trace[i - 1].op = "client"
       /\ trace[i].text = "Error: Failed to get response from LLM - " \o trace[i - 1].text

\* C10 as stated: run returns the final_answer of run_stream's
\* AgentFinalResponseEvent and raises MaxIterationsError when run_stream
\* produces no such event.
C10_RunRaisesMaxIterations ==
    Ended =>
        /\ (FinalIdx # {} /\ outcome.kind = "returned") =>
              outcome.text = LastEvent.text
        /\ FinalIdx = {} => outcome.kind = "MaxIterationsError"

\* C10 (amended): run returns exactly the final_answer of the
\* AgentFinalResponseEvent run_stream produces, and a call that produces none
\* ends with the exception that left run_stream: MaxIterationsError exactly
\* when every iteration of the budget ended in a plan or a step,
\* AttributeError when streaming is on and the client has no call_stream, the
\* exception of call_stream otherwise.
C10_RunReturnsFinalAnswer ==
    Ended =>
        /\ outcome.kind = "returned" =>
              /\ FinalIdx = {Len(trace)}
              /\ outcome.text = LastEvent.text
              /\ AnswerOf(Len(trace))
        /\ FinalIdx # {} => outcome.kind \in {"returned", "StopIteration"}
        /\ FinalIdx = {} =>
              /\ outcome.kind \in {"MaxIterationsError", "AttributeError", "Exception"}
              /\ outcome.kind = "MaxIterationsError" <=>
                    Cardinality(ContinueIdx) = max_iterations
              /\ outcome.kind = "AttributeError" <=>
                    (/\ stream /\ ~has_call_stream
                     /\ Cardinality(ContinueIdx) < max_iterations)
              /\ outcome.kind = "Exception" =>
                    /\ stream
                    /\ outcome.text \in ClientExceptions

\* C10 witness: run returned the parsed final answer after a step with tool
\* executions
C10_Witness ==
    /\ Ended
    /\ outcome = Outcome("returned", "The answer is 42", 0)
    /\ Ops("execute") # {}
    /\ IsYield(Len(trace), "AgentFinalResponseEvent")

\* ================================================ RetryConfig.wrap_function
\* wrap_function(func, exception_types) called once, on its own: func is a
\* script that says, call by call, what the function does.
MaxFailures == 3     \* most calls on which a wrapped function raises

\* The exception classes of the retry tests; all derive from Exception
ExceptionClasses == {"ValueError", "TypeError"}

\* isinstance(exception, cls) for an exception of class class
IsInstance(class, cls) == cls = class \/ cls = "Exception"

\* The exception_types a function is wrapped with: the default, or one class
ExceptionTypeSets == {{"Exception"}, {"ValueError"}}

\* One call of func: it raises class(text), or it returns text
Raises(class, text) == [raises |-> TRUE, class |-> class, text |-> text]
Returns(value) == [raises |-> FALSE, class |-> "", text |-> value]

\* The text of the exception raised on call number n
ErrorText(n) == "error " \o ToString(n)

\* Functions that raise on their first k calls and then return a value
FuncScripts ==
    UNION { { s \in [1..(k + 1) -> [raises : BOOLEAN,
                                   class : ExceptionClasses \cup {""},
                                   text : {ErrorText(n) : n \in 1..k} \cup {"success", "done"}]] :
                /\ \A n \in 1..k : \E class \in ExceptionClasses :
                                      s[n] = Raises(class, ErrorText(n))
                /\ \E value \in {"success", "done"} : s[k + 1] = Returns(value) }
            : k \in 0..MaxFailures }

\* (mutant) every exception is retried
RetryIfAnyException(class) == TRUE

\* retry_if_exception_type(exception_types)
RetryIfExceptionType(class) ==
    \E cls \in exception_types : IsInstance(class, cls)

\* (mutant) reraise=False: tenacity raises its own RetryError
RetryErrorRaised(exc) == Outcome("RetryError", "RetryError", 0)

\* reraise=True: the exception of the last attempt is raised again
Reraise(exc) == Outcome(exc.class, exc.text, 0)

WrapInit ==
    /\ max_attempts \in 1..MaxAttempts
    /\ func \in FuncScripts
    /\ exception_types \in ExceptionTypeSets
    /\ detected_type = None
    /\ RegistryUnused
    /\ StreamingUnused
    /\ pc = "wrapped"
    /\ attempt = 0
    /\ calls = 0
    /\ last_error = ""
    /\ outcome = Outcome("none", "", 0)
    /\ trace = <<>>
    /\ stream = FALSE
    /\ has_call_stream = TRUE
    /\ max_iterations = 0
    /\ tool_registry = <<>>
    /\ conversation_history = <<>>
    /\ iteration = 0
    /\ messages = <<>>
    /\ pending = <<>>
    /\ llm_response_text = ""
    /\ agent_response = NoResponse
    /\ tool_results = <<>>
    /\ runs = 0

WrapUnchanged ==
    UNCHANGED <<config, tool_registry, conversation_history, iteration, messages,
                pending, llm_response_text, agent_response, tool_results, runs>>

\* wrapped(): tenacity starts attempt number 1
CallWrapped ==
    /\ pc = "wrapped"
    /\ pc' = "attempt"
    /\ attempt' = 1
    /\ UNCHANGED <<calls, last_error, outcome, trace>>
    /\ WrapUnchanged

\* func is called and returns: its value is the value of wrapped()
FuncReturns ==
    /\ pc = "attempt"
    /\ ~func[calls + 1].raises
    /\ calls' = calls + 1
    /\ trace' = Append(trace, Entry("func", 0, attempt, "return", func[calls + 1].text))
    /\ outcome' = Outcome("returned", func[calls + 1].text, 0)
    /\ pc' = "done"
    /\ UNCHANGED <<attempt, last_error>>
    /\ WrapUnchanged

\* func is called and raises: an exception that is not retried leaves
\* wrapped() as it is, one that is retried leaves it once the stop says so
FuncRaises ==
    /\ pc = "attempt"
    /\ func[calls + 1].raises
    /\ LET exc == func[calls + 1] IN
        /\ calls' = calls + 1
        /\ trace' = Append(trace, Entry("func", 0, attempt, exc.class, exc.text))
        /\ last_error' = exc.text
        /\ IF ~RetryIfExceptionType(exc.class)
           THEN /\ outcome' = Outcome(exc.class, exc.text, 0)
                /\ pc' = "done"
           ELSE IF RetryStop(attempt)
           THEN /\ outcome' = Reraise(exc)
                /\ pc' = "done"
           ELSE /\ pc' = "sleep"
                /\ UNCHANGED outcome
    /\ UNCHANGED attempt
    /\ WrapUnchanged

\* wait_exponential: the backoff sleep before the next attempt
BackoffWait ==
    /\ pc = "sleep"
    /\ trace' = Append(trace, Entry("sleep", 0, attempt, "", ""))
    /\ attempt' = attempt + 1
    /\ pc' = "attempt"
    /\ UNCHANGED <<calls, last_error, outcome>>
    /\ WrapUnchanged

WrapNext == CallWrapped \/ FuncReturns \/ FuncRaises \/ BackoffWait

WrapSpec == WrapInit /\ [][WrapNext]_vars

\* The number of leading calls on which func raises
Failures == Len(func) - 1

\* C11: a function that raises a retryable exception on its first k calls
\* and then returns v, wrapped with max_attempts = m: when k < m it is called
\* exactly k + 1 times and wrapped() returns v; when k >= m it is called
\* exactly m times and the exception of call m leaves wrapped() unchanged.
\* Never is it called more than m times.
C11_RetryThenSuccessOrReraise ==
    (\A n \in 1..Failures :
        func[n].class \in exception_types \/ "Exception" \in exception_types)
    => /\ calls <= max_attempts
       /\ pc = "done" =>
            IF Failures < max_attempts
            THEN /\ calls = Failures + 1
                 /\ outcome = Outcome("returned", func[Failures + 1].text, 0)
            ELSE /\ calls = max_attempts
                 /\ outcome = Outcome(func[max_attempts].class,
                                      ErrorText(max_attempts), 0)

\* The retries are used up: two failed attempts, the second one's error raised
C11_Witness ==
    /\ pc = "done"
    /\ max_attempts = 2
    /\ Failures >= 2
    /\ exception_types = {"ValueError"}
    /\ calls = 2
    /\ outcome = Outcome("ValueError", "error 2", 0)

\* C12: an exception whose class is not among exception_types leaves
\* wrapped() on the first call: func was called exactly once, the exception
\* is the one func raised, and there was no backoff sleep.
C12_OtherExceptionNotRetried ==
    (/\ pc \in {"sleep", "done"}
     /\ func[1].raises
     /\ func[1].class \notin exception_types
     /\ "Exception" \notin exception_types)
    => /\ pc = "done"
       /\ calls = 1
       /\ outcome = Outcome(func[1].class, ErrorText(1), 0)
       /\ \A i \in 1..Len(trace) : trace[i].op # "sleep"

\* TypeError raised by a function wrapped to retry ValueError only, with
\* attempts to spare
C12_Witness ==
    /\ pc = "done"
    /\ max_attempts = 2
    /\ exception_types = {"ValueError"}
    /\ func[1] = Raises("TypeError", "error 1")
    /\ outcome.kind = "TypeError"
    /\ calls = 1

\* ===================================================================
\* The retry of the LLM client
\* ===================================================================
\* The calls of the client made in iteration it of the current call
ClientCallsOf(it) == {i \in Ops("client") : trace[i].it = it}

\* Failed client calls after which the LLM call of their iteration was given
\* up: no later client call in the iteration, and none to come
DeclaredFailures ==
    {i \in ClientFailures :
        /\ \A j \in ClientCallsOf(trace[i].it) : j <= i
        /\ ~(pc = "llm" /\ i = Len(trace))}

C14_NoCallStreamSurfaces ==
    (stream /\ ~has_call_stream) =>
        /\ calls = 0
        /\ Ops("client") = {}
        /\ attempt = 0
        /\ iteration <= 1
        /\ FinalIdx = {}
        /\ (Ended /\ max_iterations >= 1) =>
              /\ outcome = Outcome("AttributeError", "", 0)
              /\ Len(trace) = 3
              /\ trace[2] = Yielded(1, "AgentStreamStart", "")
              /\ trace[3] = Entry("llm", 1, 0, "_call_llm_with_retry_stream", "")

\* The configuration error has left run_stream, with retries configured
C14_Witness ==
    /\ Ended
    /\ stream
    /\ ~has_call_stream
    /\ max_attempts = 2
    /\ max_iterations = 2
    /\ outcome.kind = "AttributeError"
    /\ calls = 0

\* ==================================================== ResponseParser.parse
\* and StreamingTokenParser.try_parse_partial, each applied to one full text
\* ---------------------------------------------------- StreamingTokenParser
\* bytes.find(lit, i): the first place from i on where lit stands, 0 for none
Find(s, lit, i) ==
    LET hits == {k \in i..Len(s) : StartsAt(s, k, lit)} IN
    IF hits = {} THEN 0 ELSE CHOOSE k \in hits : \A h \in hits : k <= h

\* StreamingTokenParser._extract_json_from_markdown: what stands between an
\* opening fence at the very start and the next fence
StreamingExtractJson(buffer) ==
    LET data == Strip(buffer)
        start == SkipWs(data, IF StartsAt(data, 1, Fence \o "json") THEN 8 ELSE 4)
        end == Find(data, Fence, start)
    IN  IF ~StartsAt(data, 1, Fence) THEN data
        ELSE IF end # 0 THEN Strip(SubSeq(data, start, end - 1))
        ELSE Strip(SubSeq(data, start, Len(data)))

\* _complete_partial_json, lines 112-118: the byte at place i is passed over,
\* because the byte before it is a backslash that was not passed over itself
RECURSIVE EscapeNext(_, _)
EscapeNext(s, i) == i > 1 /\ Ch(s, i - 1) = "\\" /\ ~EscapeNext(s, i - 1)

\* The places of s that hold byte and are counted
Counted(s, byte) == {i \in 1..Len(s) : Ch(s, i) = byte /\ ~EscapeNext(s, i)}

\* The counts of _complete_partial_json, lines 106-131
CountBytes(s) ==
    [open_braces |-> Cardinality(Counted(s, "{")) - Cardinality(Counted(s, "}")),
     open_brackets |-> Cardinality(Counted(s, "[")) - Cardinality(Counted(s, "]")),
     quote_count |-> Cardinality(Counted(s, "\"")),
     has_colon |-> Counted(s, ":") # {},
     ends_with_colon |-> Len(s) \in Counted(s, ":")]

\* lit, n times
RECURSIVE Repeat(_, _)
Repeat(lit, n) == IF n <= 0 THEN "" ELSE lit \o Repeat(lit, n - 1)

\* _complete_partial_json
CompletePartialJson(json_bytes) ==
    LET s == Strip(json_bytes)
        c == CountBytes(s)
        suffix == (IF ~c.has_colon /\ c.quote_count > 0 THEN ":\"\" "
                   ELSE IF c.ends_with_colon THEN "\"\"" ELSE "")
                  \o (IF c.quote_count % 2 = 1 THEN "\"" ELSE "")
                  \o Repeat("]", c.open_brackets)
                  \o Repeat("}", c.open_braces)
    IN  IF json_bytes = "" \/ s = "{" THEN "{}" ELSE s \o suffix

\* _detect_event_type_from_partial
DetectEventType(data) ==
    IF Has(data, "plan") THEN "plan"
    ELSE IF Has(data, "tool_calls") \/ Has(data, "tool_thought") THEN "step"
    ELSE IF Has(data, "final_answer") THEN "final_response"
    ELSE "unknown"

\* ', '.join(names)
RECURSIVE Join(_)
Join(names) ==
    IF names = <<>> THEN ""
    ELSE IF Len(names) = 1 THEN names[1]
    ELSE names[1] \o ", " \o Join(Tail(names))

\* bool(value) of a decoded JSON value
Truthy(value) ==
    CASE value.kind = "null" -> FALSE
      [] value.kind = "bool" -> value.str = "true"
      [] value.kind = "number" -> value.str \notin {"0", "-0", "0.0"}
      [] value.kind = "string" -> value.str # ""
      [] value.kind = "array" -> value.items # <<>>
      [] value.kind = "object" -> value.keys # <<>>

\* repr(value) of a decoded JSON value (strings without quotes or
\* backslashes in them)
RECURSIVE PyRepr(_)
PyRepr(value) ==
    CASE value.kind = "null" -> "None"
      [] value.kind = "bool" -> IF value.str = "true" THEN "True" ELSE "False"
      [] value.kind = "number" -> value.str
      [] value.kind = "string" -> "'" \o value.str \o "'"
      [] value.kind = "array" ->
            "[" \o Join([n \in DOMAIN value.items |-> PyRepr(value.items[n])]) \o "]"
      [] value.kind = "object" ->
            "{" \o Join([n \in DOMAIN value.keys |->
                            "'" \o value.keys[n] \o "': " \o PyRepr(value.items[n])]) \o "}"

\* str(value): a str is itself, anything else its repr
PyStr(value) == IF value.kind = "string" THEN value.str ELSE PyRepr(value)

\* The event try_parse_partial returns: its class by the type it stands for,
\* its complete flag, and the fields of the AgentPlan, AgentStep or
\* AgentFinalResponse it carries
PartialEvent(type, complete, thought, plan, tool_calls, final_answer) ==
    [type |-> type, complete |-> complete, thought |-> thought, plan |-> plan,
     tool_calls |-> tool_calls, final_answer |-> final_answer]

\* (mutant) every call detects the type afresh from the data
LockedTypeRedetected(locked, data) == DetectEventType(data)

\* Lines 243-250: the type recorded for the step if there is one, else the
\* type detected from the data
LockedType(locked, data) ==
    IF locked # None THEN locked[1] ELSE DetectEventType(data)

\* (mutant) a plan text of blanks counts as complete
PlanCompleteUnstripped(plan_str) == plan_str # ""

\* is_complete = bool(plan_str.strip())
PlanComplete(plan_str) == Strip(plan_str) # ""

\* Lines 252-257: the plan event
PlanEventOf(data) ==
    LET plan_str == IF Truthy(Get(data, "plan")) THEN PyStr(Get(data, "plan")) ELSE ""
    IN  Some(PartialEvent("plan", PlanComplete(plan_str), None, plan_str, <<>>, ""))

\* Lines 262-276: the items of tool_calls a ToolCall is built from
SelectedToolCalls(data) ==
    IF Get(data, "tool_calls").kind = "array"
    THEN SelectSeq(Get(data, "tool_calls").items,
                   LAMBDA tc : tc.kind = "object" /\ Has(tc, "id") /\ Has(tc, "tool_name"))
    ELSE <<>>

\* Lines 259-284: the step event; a ToolCall or an AgentStep that pydantic
\* rejects raises inside the try, and None is returned
StepEventOf(data) ==
    LET selected == SelectedToolCalls(data)
        tool_calls == [n \in DOMAIN selected |->
                          ToolCall(ToolCallId(selected[n]), Get(selected[n], "tool_name").str)]
    IN  IF (\A n \in DOMAIN selected : ValidToolCall(selected[n]))
           /\ ValidOptionalStr(data, "tool_thought")
        THEN Some(PartialEvent("step", tool_calls # <<>>,
                               OptionalStr(Get(data, "tool_thought")), "", tool_calls, ""))
        ELSE None

\* Lines 286-297: the final response event; final_answer defaults to ""
FinalEventOf(data) ==
    LET final_answer == IF Has(data, "final_answer") THEN Get(data, "final_answer")
                        ELSE JString("")
    IN  IF final_answer.kind = "string" /\ ValidOptionalStr(data, "thought")
        THEN Some(PartialEvent("final_response", Truthy(final_answer),
                               OptionalStr(Get(data, "thought")), "", <<>>, final_answer.str))
        ELSE None

\* Lines 252-297: the event for the data under the type of the step
EventUnder(type, data) ==
    CASE type = "plan" /\ Has(data, "plan") -> PlanEventOf(data)
      [] type = "step" /\ (Has(data, "tool_thought") \/ Has(data, "tool_calls")) ->
            StepEventOf(data)
      [] type = "final_response" /\ (Has(data, "thought") \/ Has(data, "final_answer")) ->
            FinalEventOf(data)
      [] OTHER -> None

\* try_parse_partial for a step whose buffer holds buffer ("" without a
\* buffer) and whose recorded type is locked: the type recorded afterwards
\* and the event returned
TryParsePartialResult(buffer, locked) ==
    LET loaded == JsonLoads(CompletePartialJson(StreamingExtractJson(buffer)))
        type == LockedType(locked, loaded.val)
    IN  IF buffer = "" \/ ~loaded.ok \/ loaded.val.kind # "object"
        THEN [detected |-> locked, event |-> None]
        ELSE [detected |-> IF locked = None /\ type # "unknown" THEN Some(type) ELSE locked,
              event |-> EventUnder(type, loaded.val)]

ParseInit ==
    /\ llm_response_text \in ParserInputs
    /\ agent_response = NoResponse
    /\ detected_type = None
    /\ RegistryUnused
    /\ StreamingUnused
    /\ pc = "text"
    /\ stream = TRUE
    /\ has_call_stream = TRUE
    /\ max_iterations = 1
    /\ max_attempts = 1
    /\ func = <<>>
    /\ exception_types = {"Exception"}
    /\ tool_registry = <<>>
    /\ conversation_history = <<>>
    /\ iteration = 0
    /\ attempt = 0
    /\ messages = <<>>
    /\ pending = <<>>
    /\ tool_results = <<>>
    /\ last_error = ""
    /\ outcome = Outcome("none", "", 0)
    /\ trace = <<>>
    /\ calls = 0
    /\ runs = 0

\* try_parse_partial once the buffer of the step holds the whole text: the
\* type detected for the step is recorded unless it is unknown. (The event
\* it returns is not kept in the state.)
TryParsePartial ==
    /\ pc = "text"
    /\ pc' = "detected"
    /\ detected_type' = TryParsePartialResult(llm_response_text, None).detected
    /\ UNCHANGED <<stream, has_call_stream, max_iterations, max_attempts, func,
                   exception_types, registry, streaming, tool_registry,
                   conversation_history, locals, outcome, trace, calls, runs>>

\* ResponseParser.parse(llm_response_text)
Parse ==
    /\ pc = "detected"
    /\ pc' = "parsed"
    /\ agent_response' = parse(llm_response_text)
    /\ UNCHANGED <<config, tool_registry, conversation_history, iteration, attempt,
                   messages, pending, llm_response_text, tool_results, last_error,
                   outcome, trace, calls, runs>>

\* ------------------ acton_agent.parsers.ResponseParser: the ids of tool calls
\* The package acton_agent.parsers declares a ResponseParser of its own
\* (from .base import ResponseParser) whose parse gives the tool calls of a
\* step ids that are UUIDs. What follows is that parser: the steps of parse
\* above, with the ids replaced before the models are built.
HexDigits == Digits \cup {"a", "b", "c", "d", "e", "f"}

\* ResponseParser._is_valid_uuid: a UUID in its canonical lower-case text
\* form, 8-4-4-4-12
IsValidUuid(s) ==
    /\ Len(s) = 36
    /\ \A i \in 1..36 :
          IF i \in {9, 14, 19, 24} THEN Ch(s, i) = "-" ELSE Ch(s, i) \in HexDigits

\* What str(uuid.uuid4()) can return
FreshUuids ==
    {"0b7e4a52-91c3-4f6d-8a2e-5d3c1f907b64", "c4d1e8f0-2a6b-4c39-b75e-8f0a1d2c3e4b"}

\* (mutant) the supplied id is kept whatever it is
NormaliseIdKeepSupplied(item, fresh) == Get(item, "id").str

\* The id a tool call is built with: the supplied one when it is a valid
\* UUID, a freshly generated one when it is missing or is anything else
NormaliseId(item, fresh) ==
    IF Get(item, "id").kind = "string" /\ IsValidUuid(Get(item, "id").str)
    THEN Get(item, "id").str
    ELSE fresh

\* item["id"] = id, for a dict: the key keeps its place, a new key goes last
SetId(item, id) ==
    IF Has(item, "id")
    THEN JsonObject(item.keys,
                    [n \in DOMAIN item.items |->
                        IF item.keys[n] = "id" THEN JString(id) ELSE item.items[n]])
    ELSE JsonObject(Append(item.keys, "id"), Append(item.items, JString(id)))

\* The tool calls of the decoded value
ToolCallItems(data) ==
    IF data.kind = "object" /\ Get(data, "tool_calls").kind = "array"
    THEN Get(data, "tool_calls").items
    ELSE <<>>

\* The decoded value with the id of every tool call normalised; fresh[n] is
\* the UUID generated for the n-th one
NormaliseToolCalls(data, fresh) ==
    IF ToolCallItems(data) = <<>> THEN data
    ELSE JsonObject(data.keys,
                    [k \in DOMAIN data.items |->
                        IF data.keys[k] # "tool_calls" THEN data.items[k]
                        ELSE JArray([n \in DOMAIN data.items[k].items |->
                                 IF data.items[k].items[n].kind # "object"
                                 THEN data.items[k].items[n]
                                 ELSE SetId(data.items[k].items[n],
                                            NormaliseId(data.items[k].items[n],
                                                        fresh[n]))])])

\* parse of acton_agent.parsers
ParsersParse(response_text, fresh) ==
    LET text == Strip(response_text)
        loaded == JsonLoads(ExtractJsonFromMarkdown(text))
        result == IF ~loaded.ok THEN Raised("JSONDecodeError", text)
                  ELSE IF loaded.val.kind = "object"
                  THEN Classify(NormaliseToolCalls(loaded.val, fresh), text)
                  ELSE ClassifyOther(loaded.val, text)
    IN  ExceptHandlers(result, text)

\* acton_agent.parsers.ResponseParser.parse(llm_response_text)
ParseNormalising ==
    /\ pc = "detected"
    /\ pc' = "normalised"
    /\ LET items == ToolCallItems(JsonLoads(ExtractJsonFromMarkdown(Strip(llm_response_text))).val)
       IN  \E fresh \in [DOMAIN (IF items = <<>> THEN <<"">> ELSE items) -> FreshUuids] :
              agent_response' = ParsersParse(llm_response_text, fresh)
    /\ UNCHANGED <<config, tool_registry, conversation_history, iteration, attempt,
                   messages, pending, llm_response_text, tool_results, last_error,
                   outcome, trace, calls, runs>>

ParseNext == TryParsePartial \/ Parse \/ ParseNormalising

ParseSpec == ParseInit /\ [][ParseNext]_vars

\* The decoded JSON of the text that was parsed
Decoded == JsonLoads(ExtractJsonFromMarkdown(Strip(llm_response_text)))

\* The text is answer with white space before and after it at most, and
\* answer neither starts nor ends with white space
TrimmedTo(text, answer) ==
    /\ answer # "" => Ch(answer, 1) \notin Whitespace /\ Ch(answer, Len(answer)) \notin Whitespace
    /\ \E i \in 1..(Len(text) + 1) :
          /\ StartsAt(text, i, answer)
          /\ \A k \in 1..Len(text) :
                (k < i \/ k > i + Len(answer) - 1) => Ch(text, k) \in Whitespace

IsErrorFinal ==
    /\ agent_response.type = "AgentFinalResponse"
    /\ agent_response.thought = None
    /\ StartsWith(agent_response.final_answer, "Error parsing response: ")

\* value is a list of strings
IsStrings(value) ==
    value.kind = "array" /\ \A n \in DOMAIN value.items : value.items[n].kind = "string"

FencedDumps(response) ==
    {Fenced(JsonDumps(ModelDump(response, exclude_none))) : exclude_none \in BOOLEAN}

EventTypeOf(class) ==
    CASE class = "AgentPlan" -> "plan"
      [] class = "AgentStep" -> "step"
      [] class = "AgentFinalResponse" -> "final_response"

\* C20: for a complete response object (a JSON object with one of the keys
\* plan, tool_calls, final_answer that parse builds a response from without
\* an error), the type try_parse_partial detects from the full text is the
\* class parse returns for that text.
C20_StreamingDetectsParsedClass ==
    (/\ pc = "parsed"
     /\ Decoded.ok
     /\ Decoded.val.kind = "object"
     /\ \E key \in {"plan", "tool_calls", "final_answer"} : Has(Decoded.val, key)
     /\ ~IsErrorFinal)
    => detected_type = Some(EventTypeOf(agent_response.type))

\* ------------------------ acton_agent.tools.ToolRegistry (tools/registry.py)
\* A Tool as the registry reads it: name, description and get_schema(), the
\* schema as the text json.dumps(schema, indent=2) gives ("" for a schema
\* that is empty)
RegistryTool(name, description, schema) ==
    [name |-> name, description |-> description, schema |-> schema]

\* ToolSet(name=..., description=..., tools=[...], toolset_params={...});
\* a dict of parameters is a function on its keys
ToolSet(name, description, tools, toolset_params) ==
    [name |-> name, description |-> description, tools |-> tools,
     toolset_params |-> toolset_params]

UserParamSchema == "{\n  \"type\": \"object\"\n}"

\* The tools of the tests: two objects of the name custom_tool, and api_call
CustomTool == RegistryTool("custom_tool", "A tool that uses toolset parameters", UserParamSchema)
CustomToolV2 == RegistryTool("custom_tool", "Another custom tool", "")
ApiCall == RegistryTool("api_call", "Make an API call", UserParamSchema)
RegistryTools == {CustomTool, CustomToolV2, ApiCall}
RegistryToolNames == {"custom_tool", "api_call", "missing_tool"}

ToolSetNames == {"api_toolset", "test_toolset"}
ToolSetParams ==
    {[api_key |-> "hidden_key_123", endpoint |-> "https://api.example.com"],
     [api_key |-> "secret_key", user_param |-> "toolset_value"]}
ToolSets ==
    {ToolSet(name, "API tools", tools, toolset_params) :
        name \in ToolSetNames,
        tools \in {<<CustomTool>>, <<ApiCall, CustomToolV2>>},
        toolset_params \in ToolSetParams}

\* A dict whose values carry their key as name, in insertion order: a
\* sequence of values of distinct names
DictHas(d, key) == \E n \in DOMAIN d : d[n].name = key
DictGet(d, key) == d[CHOOSE n \in DOMAIN d : d[n].name = key]

\* d[value.name] = value: an existing key keeps its place
DictSet(d, value) ==
    IF DictHas(d, value.name)
    THEN [n \in DOMAIN d |-> IF d[n].name = value.name THEN value ELSE d[n]]
    ELSE Append(d, value)

\* del d[key]
DictDel(d, key) == SelectSeq(d, LAMBDA value : value.name # key)

\* del mapping[key], if key in mapping, for a dict without order
MapDel(mapping, key) == [k \in DOMAIN mapping \ {key} |-> mapping[k]]

\* How the latest registry operation ended
Returned == Outcome("returned", "", 0)

\* ToolRegistry.register
Register(tool) ==
    /\ pc = "registry"
    /\ reg_tools' = DictSet(reg_tools, tool)
    /\ outcome' = Returned
    /\ trace' = <<Entry("register", 0, 0, tool.name, tool.description)>>
    /\ UNCHANGED <<reg_toolsets, tool_to_toolset, received, tool_results>>

\* (mutant) unregister of an absent name returns silently
UnregisterOutcomeSilent(tool_name) == Returned

\* How unregister(tool_name) ends
UnregisterOutcome(tool_name) ==
    IF ~DictHas(reg_tools, tool_name)
    THEN Outcome("ToolNotFoundError", "Tool '" \o tool_name \o "' not found in registry", 0)
    ELSE Returned

\* ToolRegistry.unregister
Unregister(tool_name) ==
    /\ pc = "registry"
    /\ outcome' = UnregisterOutcome(tool_name)
    /\ reg_tools' = IF ~DictHas(reg_tools, tool_name) THEN reg_tools
                    ELSE DictDel(reg_tools, tool_name)
    /\ trace' = <<Entry("unregister", 0, 0, tool_name, "")>>
    /\ UNCHANGED <<reg_toolsets, tool_to_toolset, received, tool_results>>

\* The loop of register_toolset over the tools from the n-th on
RECURSIVE RegisterEach(_, _, _)
RegisterEach(toolset, n, state) ==
    IF n > Len(toolset.tools) THEN state
    ELSE RegisterEach(toolset, n + 1,
            [tools |-> DictSet(state.tools, toolset.tools[n]),
             mapping |-> (toolset.tools[n].name :> toolset.name) @@ state.mapping])

\* ToolRegistry.register_toolset
RegisterToolset(toolset) ==
    /\ pc = "registry"
    /\ reg_toolsets' = DictSet(reg_toolsets, toolset)
    /\ LET state == RegisterEach(toolset, 1, [tools |-> reg_tools, mapping |-> tool_to_toolset])
       IN  /\ reg_tools' = state.tools
           /\ tool_to_toolset' = state.mapping
    /\ outcome' = Returned
    /\ trace' = <<Entry("register_toolset", 0, 0, toolset.name, "")>>
    /\ UNCHANGED <<received, tool_results>>

\* (mutant) unregister_toolset leaves the tool-to-toolset association
UnregisterEachKeepMapping(toolset, n, state) ==
    [tools |-> SelectSeq(state.tools,
                   LAMBDA tool : \A k \in n..Len(toolset.tools) : toolset.tools[k].name # tool.name),
     mapping |-> state.mapping]

\* The loop of unregister_toolset over the tools from the n-th on
RECURSIVE UnregisterEach(_, _, _)
UnregisterEach(toolset, n, state) ==
    IF n > Len(toolset.tools) THEN state
    ELSE UnregisterEach(toolset, n + 1,
            [tools |-> DictDel(state.tools, toolset.tools[n].name),
             mapping |-> MapDel(state.mapping, toolset.tools[n].name)])

\* ToolRegistry.unregister_toolset
UnregisterToolset(toolset_name) ==
    /\ pc = "registry"
    /\ trace' = <<Entry("unregister_toolset", 0, 0, toolset_name, "")>>
    /\ IF ~DictHas(reg_toolsets, toolset_name)
       THEN /\ outcome' = Outcome("ValueError", "ToolSet '" \o toolset_name \o "' not found", 0)
            /\ UNCHANGED <<reg_tools, reg_toolsets, tool_to_toolset>>
       ELSE LET state == UnregisterEach(DictGet(reg_toolsets, toolset_name), 1,
                             [tools |-> reg_tools, mapping |-> tool_to_toolset])
            IN  /\ reg_tools' = state.tools
                /\ tool_to_toolset' = state.mapping
                /\ reg_toolsets' = DictDel(reg_toolsets, toolset_name)
                /\ outcome' = Returned
    /\ UNCHANGED <<received, tool_results>>

\* ToolRegistry.clear
Clear ==
    /\ pc = "registry"
    /\ reg_tools' = <<>>
    /\ reg_toolsets' = <<>>
    /\ tool_to_toolset' = <<>>
    /\ outcome' = Returned
    /\ trace' = <<Entry("clear", 0, 0, "", "")>>
    /\ UNCHANGED <<received, tool_results>>

\* ToolRegistry.has_tool
HasTool(tool_name) == DictHas(reg_tools, tool_name)

\* ToolRegistry.list_toolsets
ListToolsets == [n \in DOMAIN reg_toolsets |-> reg_toolsets[n].name]

\* ToolRegistry.get_toolset_params: the parameters of the toolset the tool is
\* associated with, None without an association or without that toolset
GetToolsetParams(tool_name) ==
    IF tool_name \in DOMAIN tool_to_toolset /\ DictHas(reg_toolsets, tool_to_toolset[tool_name])
    THEN Some(DictGet(reg_toolsets, tool_to_toolset[tool_name]).toolset_params)
    ELSE None

\* The texts of a list, one after the other
RECURSIVE Concat(_)
Concat(texts) == IF texts = <<>> THEN "" ELSE Head(texts) \o Concat(Tail(texts))

\* format_for_prompt, the entry of one tool (lines 209-216 and 224-231)
ToolEntry(tool) ==
    "Tool: " \o tool.name \o "\n"
    \o "Description: " \o tool.description \o "\n"
    \o (IF tool.schema # "" THEN "Schema: " \o tool.schema \o "\n" ELSE "")
    \o "\n"

\* (mutant) the listing of a toolset shows one of its hidden parameters
ToolsetHeaderWithParams(toolset) ==
    "ToolSet: " \o toolset.name \o "\n"
    \o "Description: " \o toolset.description \o "\n"
    \o "Parameters: api_key=" \o toolset.toolset_params.api_key \o "\n"
    \o "Tools in this set: "
    \o Join([n \in DOMAIN toolset.tools |-> toolset.tools[n].name]) \o "\n\n"

\* format_for_prompt, the listing of one toolset (lines 192-194)
ToolsetHeader(toolset) ==
    "ToolSet: " \o toolset.name \o "\n"
    \o "Description: " \o toolset.description \o "\n"
    \o "Tools in this set: "
    \o Join([n \in DOMAIN toolset.tools |-> toolset.tools[n].name]) \o "\n\n"

\* format_for_prompt, the tools of one toolset (lines 207-216)
ToolsetSection(toolset) ==
    "--- Tools from " \o toolset.name \o " ---\n"
    \o Concat([n \in DOMAIN toolset.tools |-> ToolEntry(toolset.tools[n])])

\* ToolRegistry.format_for_prompt
FormatForPrompt(tools, toolsets) ==
    LET toolset_tools == UNION { {toolsets[k].tools[n].name : n \in DOMAIN toolsets[k].tools} :
                                    k \in DOMAIN toolsets }
        standalone_tools == SelectSeq(tools, LAMBDA tool : tool.name \notin toolset_tools)
    IN  IF tools = <<>> /\ toolsets = <<>> THEN "No tools available."
        ELSE (IF toolsets # <<>>
              THEN "AVAILABLE TOOLSETS:\n\n"
                   \o Concat([k \in DOMAIN toolsets |-> ToolsetHeader(toolsets[k])])
              ELSE "")
             \o "AVAILABLE TOOLS:\n\n"
             \o Concat([k \in DOMAIN toolsets |-> ToolsetSection(toolsets[k])])
             \o (IF standalone_tools # <<>>
                 THEN "--- Standalone Tools ---\n"
                      \o Concat([n \in DOMAIN standalone_tools |-> ToolEntry(standalone_tools[n])])
                 ELSE "")

\* A call of registry.format_for_prompt(): the text it returns is the text of
\* the outcome
FormatPrompt ==
    /\ pc = "registry"
    /\ outcome' = Outcome("returned", FormatForPrompt(reg_tools, reg_toolsets), 0)
    /\ trace' = <<Entry("format_for_prompt", 0, 0, "", "")>>
    /\ UNCHANGED <<reg_tools, reg_toolsets, tool_to_toolset, received, tool_results>>

\* ToolCall(id=..., tool_name=..., parameters={...})
ToolCallWith(id, tool_name, parameters) ==
    [id |-> id, tool_name |-> tool_name, parameters |-> parameters]

\* The tool calls an agent is given for the tools of the registry; the
\* second one sets a key that the toolsets set as well
RegistryToolCalls ==
    {ToolCallWith("call_1", name, parameters) :
        name \in RegistryToolNames,
        parameters \in {[user_param |-> "test_value"],
                        [user_param |-> "user_value", api_key |-> "user_key"]}}

\* The function of the tests behind every tool: it returns a text with the
\* user_param it was called with
CaptureParams(parameters) == "Executed with user_param=" \o parameters.user_param

\* _execute_single_tool: what tool.execute is called with (agent.py 187)
ExecuteParameters(tool_call) == tool_call.parameters

\* Agent._execute_tool_calls([tool_call]) of an agent whose tool_registry is
\* this registry; the tool returns at its first attempt
ExecuteToolCalls(tool_call) ==
    /\ pc = "registry"
    /\ trace' = <<Entry("execute", 0, 1, tool_call.tool_name, tool_call.parameters.user_param)>>
    /\ outcome' = Returned
    /\ IF ~DictHas(reg_tools, tool_call.tool_name)
       THEN /\ received' = None
            /\ tool_results' = <<ToolNotFoundResult(tool_call)>>
       ELSE /\ received' = Some(ExecuteParameters(tool_call))
            /\ tool_results' = <<ToolReturnedResult(tool_call,
                                     CaptureParams(ExecuteParameters(tool_call)))>>
    /\ UNCHANGED <<reg_tools, reg_toolsets, tool_to_toolset>>

RegistryInit ==
    /\ pc = "registry"
    /\ reg_tools = <<>>
    /\ reg_toolsets = <<>>
    /\ tool_to_toolset = <<>>
    /\ received = None
    /\ tool_results = <<>>
    /\ outcome = Outcome("none", "", 0)
    /\ trace = <<>>
    /\ StreamingUnused
    /\ detected_type = None
    /\ stream = FALSE
    /\ has_call_stream = TRUE
    /\ max_iterations = 0
    /\ max_attempts = 1
    /\ func = <<>>
    /\ exception_types = {"Exception"}
    /\ tool_registry = <<>>
    /\ conversation_history = <<>>
    /\ iteration = 0
    /\ attempt = 0
    /\ messages = <<>>
    /\ pending = <<>>
    /\ llm_response_text = ""
    /\ agent_response = NoResponse
    /\ last_error = ""
    /\ calls = 0
    /\ runs = 0

RegistryUnchanged ==
    UNCHANGED <<stream, has_call_stream, max_iterations, max_attempts, func,
                exception_types, detected_type, streaming, tool_registry,
                conversation_history, pc, iteration, attempt, messages, pending,
                llm_response_text, agent_response, last_error, calls, runs>>

RegistryNext ==
    \/ \E tool \in RegistryTools : Register(tool) /\ RegistryUnchanged
    \/ \E tool_name \in RegistryToolNames : Unregister(tool_name) /\ RegistryUnchanged
    \/ \E toolset \in ToolSets : RegisterToolset(toolset) /\ RegistryUnchanged
    \/ \E toolset_name \in ToolSetNames : UnregisterToolset(toolset_name) /\ RegistryUnchanged
    \/ Clear /\ RegistryUnchanged
    \/ FormatPrompt /\ RegistryUnchanged
    \/ \E tool_call \in RegistryToolCalls : ExecuteToolCalls(tool_call) /\ RegistryUnchanged

RegistrySpec == RegistryInit /\ [][RegistryNext]_vars

\* The latest registry operation, and the name it was given
LatestOp == IF trace = <<>> THEN "" ELSE trace[1].op
LatestName == IF trace = <<>> THEN "" ELSE trace[1].name

\* The entries of the tools dict other than the one of name are the same
\* before and after the step
OthersKept(name) ==
    \A other \in RegistryToolNames \ {name} :
        /\ DictHas(reg_tools', other) = DictHas(reg_tools, other)
        /\ DictHas(reg_tools, other) => DictGet(reg_tools', other) = DictGet(reg_tools, other)

\* C21: register(tool) returns, and afterwards the entry of tool.name is tool
\* and every other entry is as before; unregister(name) of a registered name
\* returns and removes that entry and no other; unregister(name) of an
\* absent name raises ToolNotFoundError and changes nothing in the registry.
C21_RegisterUnregister ==
    [][/\ \A tool \in RegistryTools :
             (Register(tool) /\ RegistryUnchanged) =>
                 /\ outcome' = Returned
                 /\ DictHas(reg_tools', tool.name)
                 /\ DictGet(reg_tools', tool.name) = tool
                 /\ OthersKept(tool.name)
                 /\ Len(reg_tools') = Len(reg_tools) + (IF DictHas(reg_tools, tool.name) THEN 0 ELSE 1)
       /\ \A name \in RegistryToolNames :
             (Unregister(name) /\ RegistryUnchanged) =>
                 IF DictHas(reg_tools, name)
                 THEN /\ outcome' = Returned
                      /\ ~DictHas(reg_tools', name)
                      /\ OthersKept(name)
                      /\ Len(reg_tools') = Len(reg_tools) - 1
                 ELSE /\ outcome'.kind = "ToolNotFoundError"
                      /\ UNCHANGED <<reg_tools, reg_toolsets, tool_to_toolset>>
      ]_vars

\* unregister of a name that is absent, on a registry that holds a tool,
\* has raised ToolNotFoundError
C21_Witness ==
    /\ LatestOp = "unregister"
    /\ LatestName = "missing_tool"
    /\ outcome.kind = "ToolNotFoundError"
    /\ reg_tools # <<>>


\* The names list_toolsets returns
ListedToolsets == {ListToolsets[n] : n \in DOMAIN ListToolsets}

\* C22: register_toolset(toolset) returns with every tool of the toolset
\* registered, associated with the toolset (get_toolset_params gives the
\* toolset's parameters for it) and the toolset listed; unregister_toolset
\* of a registered name returns with none of the tools of that toolset
\* registered, get_toolset_params None for each of them, and the name no
\* longer listed.
C22_ToolsetRegistration ==
    [][/\ \A toolset \in ToolSets :
             (RegisterToolset(toolset) /\ RegistryUnchanged) =>
                 /\ outcome' = Returned
                 /\ toolset.name \in ListedToolsets'
                 /\ \A n \in DOMAIN toolset.tools :
                        /\ HasTool(toolset.tools[n].name)'
                        /\ DictGet(reg_tools', toolset.tools[n].name) = toolset.tools[n]
                        /\ tool_to_toolset'[toolset.tools[n].name] = toolset.name
                        /\ GetToolsetParams(toolset.tools[n].name)' = Some(toolset.toolset_params)
       /\ \A toolset \in ToolSets :
             (/\ DictHas(reg_toolsets, toolset.name)
              /\ DictGet(reg_toolsets, toolset.name) = toolset
              /\ UnregisterToolset(toolset.name)
              /\ RegistryUnchanged) =>
                 /\ outcome' = Returned
                 /\ toolset.name \notin ListedToolsets'
                 /\ \A n \in DOMAIN toolset.tools :
                        /\ ~HasTool(toolset.tools[n].name)'
                        /\ GetToolsetParams(toolset.tools[n].name)' = None
      ]_vars

\* unregister_toolset has returned on a registry that still lists the other
\* toolset and holds a tool of it
C22_Witness ==
    /\ LatestOp = "unregister_toolset"
    /\ outcome = Returned
    /\ ListedToolsets # {}
    /\ reg_tools # <<>>
    /\ DOMAIN tool_to_toolset # {}


\* The toolsets of a registry built by the same operations with other
\* toolset_params: the k-th toolset has the parameters params[k]
WithToolsetParams(toolsets, params) ==
    [k \in DOMAIN toolsets |->
        ToolSet(toolsets[k].name, toolsets[k].description, toolsets[k].tools, params[k])]

\* C23: the text format_for_prompt returns is the text it returns for the
\* registry that differs only in the toolset_params of its toolsets, whatever
\* those are; for a registry without tools and toolsets it is
\* "No tools available.".
C23_PromptHidesToolsetParams ==
    LatestOp = "format_for_prompt" =>
        /\ \A params \in [DOMAIN reg_toolsets -> ToolSetParams] :
              outcome.text = FormatForPrompt(reg_tools, WithToolsetParams(reg_toolsets, params))
        /\ (reg_tools = <<>> /\ reg_toolsets = <<>>) => outcome.text = "No tools available."

\* format_for_prompt has returned the text of a registry with two toolsets
\* of different toolset_params and a standalone tool
C23_Witness ==
    /\ LatestOp = "format_for_prompt"
    /\ Len(reg_toolsets) = 2
    /\ reg_toolsets[1].toolset_params # reg_toolsets[2].toolset_params
    /\ \E n \in DOMAIN reg_tools : reg_tools[n].name \notin DOMAIN tool_to_toolset
    /\ outcome.text # "No tools available."

\* format_for_prompt has returned the sentinel for the empty registry
C23_WitnessEmpty ==
    /\ LatestOp = "format_for_prompt"
    /\ reg_tools = <<>>
    /\ reg_toolsets = <<>>
    /\ outcome.text = "No tools available."


\* The tool call of the latest _execute_tool_calls
LatestToolCall ==
    CHOOSE tool_call \in RegistryToolCalls :
        /\ tool_call.tool_name = LatestName
        /\ tool_call.parameters.user_param = trace[1].text

\* C24: when the agent has dispatched a call to a registered tool that
\* belongs to a registered toolset, the parameters the tool's execution
\* received are the toolset's toolset_params overlaid with the call's
\* parameters: every key of either is there, with the call's value for a key
\* of the call and the toolset's value for any other key.
C24_ToolsetParamsMerged ==
    (/\ LatestOp = "execute"
     /\ HasTool(LatestName)
     /\ GetToolsetParams(LatestName) # None)
    => received = Some(LatestToolCall.parameters @@ GetToolsetParams(LatestName)[1])


\* ------------------------------- Agent.run_stream in streaming mode
\* The contents of the AgentTokens of iteration it, in the order of the trace
TokensOf(tr, it) ==
    LET tokens == SelectSeq(tr, LAMBDA e : e.op = "yield" /\ e.name = "AgentToken" /\ e.it = it)
    IN  [n \in DOMAIN tokens |-> tokens[n].text]

\* The chunk lists a call of call_stream can deliver
StreamedChunks == UNION {Chunkings(text) : text \in LLMResponses}

\* The AgentStreamEnds of the iteration of the AgentStreamStart at place i
StreamEnds(i) ==
    {j \in Idx : j > i /\ IsYield(j, "AgentStreamEnd") /\ trace[j].it = trace[i].it}

\* The AgentStreamStart at place i has its AgentStreamEnd: between the two
\* nothing is yielded but the AgentTokens of the iteration, one per chunk the
\* client delivered and in their order; after it the concatenation of the
\* tokens is appended as the assistant message and the event of the class
\* parse gives that text is yielded
StreamMatched(i) ==
    LET k == trace[i].it
        tokens == TokensOf(trace, k)
        text == Concat(tokens)
    IN  /\ Cardinality(StreamEnds(i)) = 1
        /\ \A j \in StreamEnds(i) :
              /\ \A q \in (i + 1)..(j - 1) :
                    trace[q].op = "yield" => IsYield(q, "AgentToken") /\ trace[q].it = k
              /\ Len(SelectSeq(SubSeq(trace, i, j), LAMBDA e : e.op = "yield")) = Len(tokens) + 2
              /\ tokens \in StreamedChunks
              /\ IF j = Len(trace)
                 THEN pc = "stream_end" /\ llm_response_text = text
                 ELSE /\ j + 2 <= Len(trace)
                      /\ trace[j + 1] = Appended(k, Message("assistant", text))
                      /\ trace[j + 2] = Yielded(k, EventOf(parse(text)), parse(text).final_answer)

\* The stream of the AgentStreamStart at place i is still being consumed:
\* the tokens so far and the chunks to come are what the client delivers
StreamInProgress(i) ==
    /\ StreamEnds(i) = {}
    /\ trace[i].it = iteration
    /\ \/ pc = "stream_start" /\ i = Len(trace)
       \/ pc = "streaming" /\ TokensOf(trace, iteration) \o pending \in StreamedChunks

\* The stream of the AgentStreamStart at place i ended with an exception
\* that left run_stream: no AgentStreamEnd, no response event and no
\* assistant message of that iteration
StreamRaised(i) ==
    /\ StreamEnds(i) = {}
    /\ Ended /\ Escaped
    /\ \A q \in Idx : q > i =>
          /\ trace[q].it = trace[i].it
          /\ trace[q].op # "append"
          /\ trace[q].op = "yield" => IsYield(q, "AgentToken")

\* The response events of the current call
ResponseEventIdx ==
    {q \in Idx : \E name \in {"AgentPlanEvent", "AgentStepEvent", "AgentFinalResponseEvent"} :
                    IsYield(q, name)}

\* Every iteration begins with AgentStreamStart, and a response event comes
\* only after the AgentStreamEnd of its iteration and the assistant message
StreamFraming ==
    /\ \A q \in Idx : trace[q].it >= 1 =>
          \E i \in 1..q : IsYield(i, "AgentStreamStart") /\ trace[i].it = trace[q].it
                          /\ \A p \in 1..(i - 1) : trace[p].it < trace[i].it
    /\ \A q \in ResponseEventIdx :
          /\ q > 2
          /\ IsYield(q - 2, "AgentStreamEnd") /\ trace[q - 2].it = trace[q].it
          /\ trace[q - 1].op = "append"

StreamStartIdx == {i \in Idx : IsYield(i, "AgentStreamStart")}

\* C25 (as stated): in streaming mode every iteration yields AgentStreamStart,
\* then one AgentToken per chunk the client delivers, in order, then
\* AgentStreamEnd and only then its response event; every AgentStreamStart
\* gets its AgentStreamEnd once the stream has been consumed; the text that
\* is classified and appended is the concatenation of the tokens.
C25_StreamStartAlwaysEnded ==
    stream =>
        /\ StreamFraming
        /\ \A i \in StreamStartIdx : StreamMatched(i) \/ StreamInProgress(i)

\* C25 (amended): as above for every iteration whose stream is consumed to
\* its end; an AgentStreamStart whose stream raises (call_stream missing, or
\* raising at once or between two chunks) is followed by the tokens
\* delivered so far and by nothing else: the exception leaves run_stream.
C25_StreamEventOrder ==
    stream =>
        /\ StreamFraming
        /\ \A i \in StreamStartIdx :
              StreamMatched(i) \/ StreamInProgress(i) \/ StreamRaised(i)

\* A streaming call has ended after two iterations, each with its start, its
\* two tokens and its end, the first with a step event
C25_Witness ==
    /\ stream
    /\ Ended
    /\ \E i, j \in StreamStartIdx : i < j /\ StreamMatched(i) /\ StreamMatched(j)
    /\ \E q \in Idx : IsYield(q, "AgentStepEvent")
    /\ \A it \in 1..2 : Len(TokensOf(trace, it)) = 2

\* A streaming call has ended with the exception of a stream that raised
\* after its first token
C25_WitnessRaised ==
    /\ stream
    /\ \E i \in StreamStartIdx :
          StreamRaised(i) /\ Len(TokensOf(trace, trace[i].it)) = 1


\* ------------------------------------- Agent._build_messages at an LLM call
\* The LLM call of the current iteration is under way: its messages are
\* built and the client is being called, or its stream consumed
InLLMCall == pc \in {"llm", "stream_start", "streaming"}

\* The tool-results messages appended in iteration it
ToolResultsMessages(it) ==
    {Message("user", trace[q].text) :
        q \in {p \in Ops("append") : trace[p].it = it /\ trace[p].name = "user"}}

\* C30: during every LLM call the message list given to the client is one
\* system message followed by the conversation history as it stands, in
\* order; the history never holds a system message; and the call of the
\* iteration after a step has that step's tool-results message as its last
\* message.
C30_OutboundMessages ==
    /\ \A n \in DOMAIN conversation_history : conversation_history[n].role # "system"
    /\ InLLMCall =>
          /\ messages = <<Message("system", SystemPrompt)>> \o conversation_history
          /\ Len(SelectSeq(messages, LAMBDA msg : msg.role = "system")) = 1
          /\ iteration >= 2 =>
                \A msg \in ToolResultsMessages(iteration - 1) :
                    /\ StartsWith(msg.content, "Tool Results:\n")
                    /\ messages[Len(messages)] = msg

\* The second LLM call of a run is under way after a step: its messages
\* begin with the system message and end with the assistant message of the
\* step and the tool results
C30_Witness ==
    /\ InLLMCall
    /\ iteration = 2
    /\ ToolResultsMessages(1) # {}
    /\ Len(messages) >= 4
    /\ messages[1].role = "system"
    /\ messages[Len(messages)].role = "user"
    /\ messages[Len(messages) - 1].role = "assistant"


\* ================= StreamingTokenParser: the buffer of one step, token by
\* token (add_token, try_parse_partial, clear_buffer)
\* The texts an LLM streams for a step; a later part of some of them holds a
\* key of another type than the one an earlier part shows
TextPlan == "{\"plan\": \"do it\"}"
TextThoughtThenPlan == "{\"tool_thought\": \"t\", \"plan\": \" \"}"
TextCallsThenFinal ==
    "{\"tool_calls\": [{\"id\": \"c1\", \"tool_name\": \"echo\"}], \"final_answer\": \"x\"}"
TextFinalThenPlan == "{\"final_answer\": \"ok\", \"plan\": [\"a\"]}"
TextThoughtThenEmptyFinal == "{\"thought\": \"t\", \"final_answer\": \"\"}"
TextFencedPlan == Fence \o "json\n{\"plan\": \" \", \"tool_calls\": []}\n" \o Fence
TextList == "[1]"
StreamTexts ==
    {TextPlan, TextThoughtThenPlan, TextCallsThenFinal, TextFinalThenPlan,
     TextThoughtThenEmptyFinal, TextFencedPlan, TextList}

\* get_buffer: the bytes of the buffer, b"" without one
GetBuffer == IF step_buffer = None THEN "" ELSE step_buffer[1]

\* add_token(step_id, token): the token is the next piece of one of the
\* texts (its next character, or all that is left of it)
AddToken(token) ==
    /\ pc = "accumulating"
    /\ \E text \in StreamTexts : \E n \in 1..Len(text) :
          /\ n > Len(GetBuffer)
          /\ SubSeq(text, 1, Len(GetBuffer)) = GetBuffer
          /\ token = SubSeq(text, Len(GetBuffer) + 1, n)
    /\ step_buffer' = Some(GetBuffer \o token)
    /\ trace' = <<Entry("add_token", 0, 0, "", token)>>
    /\ UNCHANGED <<detected_type, parsed_event>>

\* try_parse_partial(step_id): the event returned is kept in parsed_event
TryParsePartialCall ==
    /\ pc = "accumulating"
    /\ LET result == TryParsePartialResult(GetBuffer, detected_type)
       IN  /\ detected_type' = result.detected
           /\ parsed_event' = result.event
    /\ trace' = <<Entry("try_parse_partial", 0, 0, "", "")>>
    /\ UNCHANGED step_buffer

\* clear_buffer(step_id)
ClearBuffer ==
    /\ pc = "accumulating"
    /\ step_buffer' = None
    /\ detected_type' = None
    /\ trace' = <<Entry("clear_buffer", 0, 0, "", "")>>
    /\ UNCHANGED parsed_event

StreamParseInit ==
    /\ pc = "accumulating"
    /\ step_buffer = None
    /\ detected_type = None
    /\ parsed_event = None
    /\ trace = <<>>
    /\ has_jiter = TRUE
    /\ json_str = ""
    /\ parsed = None
    /\ WrappersUnused
    /\ RegistryUnused
    /\ llm_response_text = ""
    /\ agent_response = NoResponse
    /\ stream = TRUE
    /\ has_call_stream = TRUE
    /\ max_iterations = 1
    /\ max_attempts = 1
    /\ func = <<>>
    /\ exception_types = {"Exception"}
    /\ tool_registry = <<>>
    /\ conversation_history = <<>>
    /\ iteration = 0
    /\ attempt = 0
    /\ messages = <<>>
    /\ pending = <<>>
    /\ tool_results = <<>>
    /\ last_error = ""
    /\ outcome = Outcome("none", "", 0)
    /\ calls = 0
    /\ runs = 0

StreamParseUnchanged ==
    UNCHANGED <<stream, has_call_stream, max_iterations, max_attempts, func,
                exception_types, registry, has_jiter, json_str, parsed, wrappers,
                tool_registry, conversation_history, pc, iteration, attempt,
                messages, pending, llm_response_text, agent_response,
                tool_results, last_error, outcome, calls, runs>>

StreamParseNext ==
    \/ \E text \in {t \in StreamTexts : Len(t) > Len(GetBuffer)} :
       \E n \in {Len(GetBuffer) + 1, Len(text)} :
          AddToken(SubSeq(text, Len(GetBuffer) + 1, n)) /\ StreamParseUnchanged
    \/ TryParsePartialCall /\ StreamParseUnchanged
    \/ ClearBuffer /\ StreamParseUnchanged

StreamParseSpec == StreamParseInit /\ [][StreamParseNext]_vars

DefiningFieldGiven(event) ==
    CASE event.type = "plan" -> Strip(event.plan) # ""
      [] event.type = "step" -> event.tool_calls # <<>>
      [] event.type = "final_response" -> event.final_answer # ""

C27_WitnessComplete ==
    /\ LatestOp = "try_parse_partial"
    /\ parsed_event # None
    /\ parsed_event[1].type = "step"
    /\ parsed_event[1].complete
    /\ Len(parsed_event[1].tool_calls) = 1

C27_WitnessEmpty ==
    /\ LatestOp = "try_parse_partial"
    /\ step_buffer = None
    /\ parsed_event = None


\* ================================= agent_stream.parse_partial_json
\* s.endswith(suffix)
EndsWith(s, suffix) ==
    Len(s) >= Len(suffix) /\ SubSeq(s, Len(s) - Len(suffix) + 1, Len(s)) = suffix

\* s[:-n]
DropLast(s, n) == SubSeq(s, 1, Len(s) - n)

\* [0-9a-fA-F]
HexChars == HexDigits \cup {"A", "B", "C", "D", "E", "F"}

\* PARTIAL_UNICODE_PATTERN.search(json_str): the length of the match, a
\* backslash and u and at most three hex digits at the very end, 0 without a
\* match (no text here ends with a newline after such an escape)
PartialUnicodeLen(s) ==
    LET lens == {k + 2 : k \in {k \in 0..3 :
                    /\ Len(s) >= k + 2
                    /\ SubSeq(s, Len(s) - k - 1, Len(s) - k) = "\\u"
                    /\ \A i \in (Len(s) - k + 1)..Len(s) : Ch(s, i) \in HexChars}}
    IN  IF lens = {} THEN 0 ELSE CHOOSE n \in lens : TRUE

\* Lines 53-66: the clean-up of the end of the text
TrailingCleanup(text) ==
    IF EndsWith(text, "\"") /\ ~EndsWith(text, "\\\"") /\ ~EndsWith(text, ":\"")
    THEN DropLast(text, 1)
    ELSE IF EndsWith(text, "\\") /\ ~EndsWith(text, "\\\\")
    THEN DropLast(text, 1)
    ELSE DropLast(text, PartialUnicodeLen(text))

\* What a parse gives: a value that is the exact decoding of a text, a value
\* of which only the kind is known (what jiter recovered of an incomplete
\* object or array), or an exception
Exact(val) == [ok |-> TRUE, exact |-> TRUE, val |-> val]
Recovered(val) == [ok |-> TRUE, exact |-> FALSE, val |-> val]
ParseRaised == [ok |-> FALSE, exact |-> FALSE, val |-> JNull]

EmptyDict == JsonObject(<<>>, <<>>)

\* jiter.from_json(text, partial_mode="trailing-strings"): a complete text
\* gives its value. Of an incomplete text: a string that is not closed gives
\* the characters it has; an object or an array gives what was read of it
\* or, depending on where the text stops, raises; anything else raises.
JiterFromJsonPartial(text) ==
    LET first == Ch(text, SkipWs(text, 1))
    IN  IF JsonLoads(text).ok THEN {Exact(JsonLoads(text).val)}
        ELSE IF first = "\"" /\ JsonLoads(text \o "\"").ok
        THEN {Exact(JsonLoads(text \o "\"").val)}
        ELSE IF first = "{" THEN {Recovered(EmptyDict), ParseRaised}
        ELSE IF first = "[" THEN {Recovered(JArray(<<>>)), ParseRaised}
        ELSE {ParseRaised}

\* str.count(ch)
Count(s, ch) == Cardinality({i \in 1..Len(s) : Ch(s, i) = ch})

\* Lines 86-95: closing braces or brackets added by the counts
Balanced(text) ==
    IF StartsAt(Strip(text), 1, "{")
    THEN text \o Repeat("}", Count(text, "{") - Count(text, "}"))
    ELSE IF StartsAt(Strip(text), 1, "[")
    THEN text \o Repeat("]", Count(text, "[") - Count(text, "]"))
    ELSE text

\* (mutant) the last handler returns None
FallbackNone == JNull

\* Lines 98-99: except Exception: return {}
Fallback == EmptyDict

\* Lines 80-99: json.loads, and json.loads of the balanced text after a
\* JSONDecodeError
JsonLoadsWithRecovery(text) ==
    IF JsonLoads(text).ok THEN Exact(JsonLoads(text).val)
    ELSE IF JsonLoads(Balanced(text)).ok THEN Exact(JsonLoads(Balanced(text)).val)
    ELSE Exact(Fallback)

\* parse_partial_json(json_str) in a build with or without jiter: the values
\* it can return
ParsePartialJson(text, jiter) ==
    IF Strip(text) = "" THEN {Exact(EmptyDict)}
    ELSE LET cleaned == TrailingCleanup(text)
             fast == IF jiter THEN JiterFromJsonPartial(cleaned) ELSE {ParseRaised}
         IN  {IF r.ok THEN r ELSE JsonLoadsWithRecovery(cleaned) : r \in fast}

\* Valid JSON documents: objects and arrays, with strings, numbers, nesting,
\* an escaped quote and a unicode escape, and documents that are a scalar
DocObject == "{\"a\": \"b\", \"n\": [1, 2]}"
DocArray == " [1, {\"k\": \"v\"}]"
DocEscapes == "{\"q\": \"a\\\"\", \"u\": \"\\u0041\"}"
DocString == "\"ab\""
DocNumber == "42"
DocTrue == "true"
JsonDocuments == {DocObject, DocArray, DocEscapes, DocString, DocNumber, DocTrue}

\* The truncation prefixes of a document, the empty one and the whole
\* document among them
Prefixes(doc) == {SubSeq(doc, 1, n) : n \in 0..Len(doc)}

PartialJsonInit ==
    /\ pc = "partial_json"
    /\ json_str \in UNION {Prefixes(doc) : doc \in JsonDocuments}
    /\ has_jiter \in BOOLEAN
    /\ parsed = None
    /\ WrappersUnused
    /\ step_buffer = None
    /\ parsed_event = None
    /\ detected_type = None
    /\ trace = <<>>
    /\ outcome = Outcome("none", "", 0)
    /\ RegistryUnused
    /\ llm_response_text = ""
    /\ agent_response = NoResponse
    /\ stream = TRUE
    /\ has_call_stream = TRUE
    /\ max_iterations = 1
    /\ max_attempts = 1
    /\ func = <<>>
    /\ exception_types = {"Exception"}
    /\ tool_registry = <<>>
    /\ conversation_history = <<>>
    /\ iteration = 0
    /\ attempt = 0
    /\ messages = <<>>
    /\ pending = <<>>
    /\ tool_results = <<>>
    /\ last_error = ""
    /\ calls = 0
    /\ runs = 0

\* parse_partial_json(json_str): every exception inside is handled, so the
\* call returns; what it returns is kept in parsed
ParsePartialJsonCall ==
    /\ pc = "partial_json"
    /\ parsed = None
    /\ \E result \in ParsePartialJson(json_str, has_jiter) : parsed' = Some(result)
    /\ outcome' = Returned
    /\ trace' = <<Entry("parse_partial_json", 0, 0, "", json_str)>>
    /\ UNCHANGED <<stream, has_call_stream, max_iterations, max_attempts, func,
                   exception_types, detected_type, registry, step_buffer,
                   parsed_event, has_jiter, json_str, wrappers, tool_registry,
                   conversation_history, pc, iteration, attempt, messages, pending,
                   llm_response_text, agent_response, tool_results, last_error,
                   calls, runs>>

PartialJsonNext == ParsePartialJsonCall

PartialJsonSpec == PartialJsonInit /\ [][PartialJsonNext]_vars

\* The text is a prefix of a document that is an object or an array (after
\* white space at most), the empty prefix included
OfObjectOrArray(text) == Strip(text) = "" \/ Ch(Strip(text), 1) \in {"{", "["}

C28_WitnessScalar ==
    /\ parsed # None
    /\ json_str = "4"
    /\ parsed[1].val = JNumber("4")

\* C29: for every complete, well-formed JSON text parse_partial_json returns
\* the value json.loads gives for it.
C29_IdempotentOnComplete ==
    (parsed # None /\ JsonLoads(json_str).ok) =>
        /\ parsed[1].exact
        /\ parsed[1].val = JsonLoads(json_str).val


\* ------------------------------------------------------------------- C31
\* The ToolResult objects dispatch has produced in the current step
ProducedResults == {tool_results[i] : i \in DOMAIN tool_results}

\* The result carries its outcome in the error field, in the result field
HasError(r) == r.error # None
HasResult(r) == r.result # ""

\* C31 (as stated): every ToolResult produced by dispatch has exactly one of
\* an error that is not None and a result that is a non-empty string.
C31_ExactlyOneField ==
    \A r \in ProducedResults : HasError(r) # HasResult(r)

\* C31 (amended): every ToolResult produced by dispatch has at most one of an
\* error that is not None and a non-empty result: with an error the result is
\* the empty string, and without one the result is the text the tool
\* returned, which does not start with "Error" and is empty exactly when the
\* tool returned the empty string.
C31_AtMostOneField ==
    Dispatching =>
        \A i \in DOMAIN tool_results :
            LET r == tool_results[i]
                returned == {trace[j].text : j \in ExecutesOf(iteration, i) \ RaisedOf(iteration, i)}
            IN  /\ ~(HasError(r) /\ HasResult(r))
                /\ ~HasError(r) =>
                      /\ returned = {r.result}
                      /\ ~StartsWith(r.result, "Error")
                /\ (HasError(r) /\ returned # {}) => returned = {r.error[1]}

\* A tool returned the empty string: the result has neither an error nor a
\* non-empty result
C31_Witness ==
    /\ Dispatching
    /\ \E r \in ProducedResults : ~HasError(r) /\ ~HasResult(r)

\* A tool returned a text that starts with "Error": it is in the error field
C31_WitnessError ==
    /\ Dispatching
    /\ \E r \in ProducedResults : r.error = Some("Errors: 0") /\ r.result = ""


\* ------------------------------------------------------------------- C32
\* The texts of the LLM responses the current call obtained, in order: what
\* the client's call returned, or the tokens of a stream that came to its end
RECURSIVE ObtainedResponses(_)
ObtainedResponses(tr) ==
    IF tr = <<>>
    THEN <<>>
    ELSE LET e == Head(tr) IN
         (IF e.op = "client" /\ e.name = "call" /\ e.text \notin ClientExceptions
          THEN <<e.text>>
          ELSE IF e.op = "yield" /\ e.name = "AgentStreamEnd"
          THEN <<TokenText(trace, e.it)>>
          ELSE <<>>)
         \o ObtainedResponses(Tail(tr))

\* What a response adds to the history: an assistant message with its text
\* and, for a step, a user message with the tool results (kind names which)
RECURSIVE ExpectedAfterResponses(_)
ExpectedAfterResponses(texts) ==
    IF texts = <<>>
    THEN <<>>
    ELSE <<[kind |-> "assistant", content |-> Head(texts)]>>
         \o (IF parse(Head(texts)).type = "AgentStep"
             THEN <<[kind |-> "tool_results", content |-> ""]>>
             ELSE <<>>)
         \o ExpectedAfterResponses(Tail(texts))

\* The message is the one expected at that place
AsExpected(msg, e) ==
    IF e.kind = "assistant"
    THEN msg = Message("assistant", e.content)
    ELSE msg.role = "user" /\ StartsWith(msg.content, "Tool Results:\n")

\* How many of the expected messages are not appended yet: the messages of a
\* response whose stream has just ended, the tool results of a step that is
\* being dispatched
StillToAppend(texts) ==
    CASE pc = "stream_end" ->
             IF parse(texts[Len(texts)]).type = "AgentStep" THEN 2 ELSE 1
      [] pc \in {"step_yielded", "dispatch"} -> 1
      [] OTHER -> 0

\* C32: the messages one call appends to the history are the user message
\* with the input, then for each LLM response obtained, in order, an assistant
\* message with its text and, exactly when the response is a step, a user
\* message with the tool results after it; a failed LLM call appends nothing;
\* so it is for a call that ended with a final answer, with an LLM failure or
\* with MaxIterationsError, and the history ends with these messages.
C32_RunAppends ==
    (outcome.kind # "none") =>
        LET apps == AppendedMessages(trace)
            expected == ExpectedAfterResponses(ObtainedResponses(trace))
            rest == Len(expected) - (Len(apps) - 1)
        IN  /\ Len(apps) >= 1
            /\ apps[1].role = "user" /\ apps[1].content \in UserInputs
            /\ trace[1] = Appended(0, apps[1])
            /\ rest = StillToAppend(ObtainedResponses(trace))
            /\ \A i \in 2..Len(apps) : AsExpected(apps[i], expected[i - 1])
            /\ Ended => rest = 0
            /\ pc # "idle" =>
                  /\ Len(apps) <= Len(conversation_history)
                  /\ SubSeq(conversation_history,
                            Len(conversation_history) - Len(apps) + 1,
                            Len(conversation_history)) = apps

\* A call that ended with MaxIterationsError after a step and a plan has
\* appended four messages
C32_Witness ==
    /\ Ended
    /\ outcome.kind = "MaxIterationsError"
    /\ Len(AppendedMessages(trace)) = 4
    /\ \E i \in Idx : IsYield(i, "AgentStepEvent")

\* A call that ended with the error response of a failed LLM call after a
\* step has appended three messages
C32_WitnessLLMFailure ==
    /\ Ended
    /\ ClientFailures # {}
    /\ Len(AppendedMessages(trace)) = 3
    /\ \E i \in Idx : IsYield(i, "AgentStepEvent")


\* ------------------------------------------------------------------- C33
\* The messages are with the client: an LLM call of the current iteration is
\* under way
WithClient == pc \in {"llm", "stream_start", "streaming"}

\* A call starts: the history so far is kept and the input appended, and the
\* iteration count starts again
StartStep ==
    (pc = "idle" /\ pc' # "idle") =>
        /\ \E user_input \in UserInputs :
              conversation_history' =
                  Append(conversation_history, Message("user", user_input))
        /\ iteration' = 0
        /\ runs' = runs + 1

\* A call ends, however it does: the history is left as it is
EndStep == (pc # "idle" /\ pc' = "idle") => UNCHANGED conversation_history

\* The history gets shorter in a reset only
ShrinkStep ==
    Len(conversation_history') < Len(conversation_history) =>
        /\ pc = "idle" /\ pc' = "idle"
        /\ conversation_history' = <<>>

\* Every call can use all of max_iterations: a call that met no final answer
\* and no failure made max_iterations LLM calls, and what is sent to the LLM
\* is the system message and the whole history, earlier calls included
BudgetAndHistory ==
    /\ iteration <= max_iterations
    /\ (Ended /\ FinalIdx = {} /\ ~Escaped) =>
          /\ outcome.kind = "MaxIterationsError"
          /\ Cardinality(Ops("llm")) = max_iterations
    /\ WithClient =>
          /\ messages = <<Message("system", SystemPrompt)>> \o conversation_history
          /\ Len(conversation_history) >= Len(AppendedMessages(trace))

\* C33: every call of run or run_stream has max_iterations iterations of its
\* own whatever earlier calls did, and the history earlier calls left,
\* whether they ended with a final answer, MaxIterationsError or a failure of
\* the LLM, stays and is sent to the LLM in later calls until reset.
C33_FreshBudgetKeptHistory ==
    [][StartStep /\ EndStep /\ ShrinkStep]_vars /\ []BudgetAndHistory

\* With max_iterations = 1 the first call got a plan and so ended with
\* MaxIterationsError; the second call then got a plan for its one iteration,
\* after the four messages of both calls were in the history, and ended with
\* MaxIterationsError as well
C33_Witness ==
    /\ runs = 2
    /\ max_iterations = 1
    /\ Ended
    /\ outcome.kind = "MaxIterationsError"
    /\ Len(conversation_history) = 4
    /\ conversation_history[2] = Message("assistant", RespPlan)
    /\ conversation_history[4] = Message("assistant", RespPlan)

\* The second call is sending the messages of the first, which a failure of
\* the LLM ended, to the LLM
C33_WitnessSent ==
    /\ runs = 2
    /\ ~stream
    /\ pc = "llm"
    /\ Len(messages) = 3
    /\ messages[2].role = "user" /\ messages[3].role = "user"


\* ------------------------------------------------------------------- C34
\* The tool registered under the name is a tool of a registered toolset, and
\* the parameters are those of that toolset
FromRegisteredToolset(tool_name, params) ==
    \E k \in DOMAIN reg_toolsets :
        /\ \E n \in DOMAIN reg_toolsets[k].tools :
              reg_toolsets[k].tools[n] = DictGet(reg_tools, tool_name)
        /\ params = Some(reg_toolsets[k].toolset_params)

\* C34: after any sequence of register, unregister, register_toolset,
\* unregister_toolset and clear, get_toolset_params(name) is not None only
\* for a registered tool that came from a registered toolset containing it;
\* a name that is not registered, or whose tool was registered on its own,
\* gets None.
C34_ToolsetParamsOnlyForToolsetTools ==
    \A tool_name \in RegistryToolNames :
        GetToolsetParams(tool_name) # None =>
            /\ HasTool(tool_name)
            /\ FromRegisteredToolset(tool_name, GetToolsetParams(tool_name))


\* ------------------------------------------------------------------- C35
\* How many entries "Tool: <name>" the text has: lines of their own
ToolEntries(text, tool_name) ==
    Cardinality({i \in 1..Len(text) : StartsAt(text, i, "\nTool: " \o tool_name \o "\n")})

\* C35: after any sequence of registry operations the text format_for_prompt
\* returns lists every registered tool exactly once and lists no tool that
\* get(name) does not find.
C35_PromptListsRegisteredToolsOnce ==
    LatestOp = "format_for_prompt" =>
        \A tool_name \in RegistryToolNames :
            ToolEntries(outcome.text, tool_name) = IF HasTool(tool_name) THEN 1 ELSE 0


\* ============================ streaming_parser.parse_streaming_events
\* An event of the agent's stream: its class, the step_id of an
\* AgentStreamStart, the content of an AgentToken
StreamEvent(class, step_id, content) ==
    [class |-> class, step_id |-> step_id, content |-> content]

\* The step_id of the one turn
StepId == "step_1"

\* The ways a text is cut into tokens: one token, every cut in two and in
\* three, and one token a character
RECURSIVE Characters(_)
Characters(text) ==
    IF text = "" THEN <<>> ELSE <<SubSeq(text, 1, 1)>> \o Characters(SubSeq(text, 2, Len(text)))

Tokenisations(text) ==
    {<<text>>, Characters(text)}
    \cup {<<SubSeq(text, 1, i), SubSeq(text, i + 1, Len(text))>> : i \in 1..(Len(text) - 1)}
    \cup {<<SubSeq(text, 1, cut[1]), SubSeq(text, cut[1] + 1, cut[2]),
             SubSeq(text, cut[2] + 1, Len(text))>> :
             cut \in {c \in (1..Len(text)) \X (1..Len(text)) : c[1] < c[2] /\ c[2] < Len(text)}}

\* The events of one turn of the agent for a response text: the stream of
\* its tokens from start to end, then the event of the parsed response
TurnEvents(tokens) ==
    <<StreamEvent("AgentStreamStart", StepId, "")>>
    \o [n \in DOMAIN tokens |-> StreamEvent("AgentToken", "", tokens[n])]
    \o <<StreamEvent("AgentStreamEnd", "", ""),
         StreamEvent("AgentFinalResponseEvent", "", "")>>

\* The response texts of the turns; the last one has an object inside that
\* has a key of a response as well
TextNestedFinal == "{\"final_answer\": \"x\", \"meta\": {\"final_answer\": \"y\"}}"
TurnTexts ==
    {RespFinal, TextPlan, TextCallsThenFinal, TextThoughtThenEmptyFinal, TextList,
     TextNestedFinal}

EventsInit ==
    /\ pc = "parse_streaming_events"
    /\ \E text \in TurnTexts : \E tokens \in Tokenisations(text) :
          /\ agent_stream = TurnEvents(tokens)
    /\ current_step_id = None
    /\ stream_active = FALSE
    /\ last_complete = FALSE
    /\ in_llm_response = FALSE
    /\ current_step_tokens = <<>>
    /\ parser_buffer = ""
    /\ last_parsed = <<>>
    /\ step_buffer = None
    /\ detected_type = None
    /\ parsed_event = None
    /\ trace = <<>>
    /\ has_jiter = TRUE
    /\ json_str = ""
    /\ parsed = None
    /\ RegistryUnused
    /\ llm_response_text = ""
    /\ agent_response = NoResponse
    /\ stream = TRUE
    /\ has_call_stream = TRUE
    /\ max_iterations = 1
    /\ max_attempts = 1
    /\ func = <<>>
    /\ exception_types = {"Exception"}
    /\ tool_registry = <<>>
    /\ conversation_history = <<>>
    /\ iteration = 0
    /\ attempt = 0
    /\ messages = <<>>
    /\ pending = <<>>
    /\ tool_results = <<>>
    /\ last_error = ""
    /\ outcome = Outcome("none", "", 0)
    /\ calls = 0
    /\ runs = 0

\* What the generator does is kept in trace: a call of try_parse_partial (it
\* tells the turn, name whether the call is made for a token or at the end of
\* the stream), a parsed event yielded (idx 1 for a complete one, name its
\* type), a call of clear_buffer, an event passed through
ParsedYield(event) ==
    Entry("yield", 0, IF event.complete THEN 1 ELSE 0, event.type, "")

\* The next event of agent_stream is of that class
NextEventIs(classes) ==
    /\ pc = "parse_streaming_events"
    /\ agent_stream # <<>>
    /\ Head(agent_stream).class \in classes

\* Lines 324-328: AgentStreamStart
OnStreamStart ==
    /\ NextEventIs({"AgentStreamStart"})
    /\ agent_stream' = Tail(agent_stream)
    /\ current_step_id' = Some(Head(agent_stream).step_id)
    /\ stream_active' = TRUE
    /\ last_complete' = FALSE
    /\ UNCHANGED <<step_buffer, detected_type, parsed_event, trace>>

\* Lines 333-341: what the loop does with the result of try_parse_partial
\* for the buffer with the token added; called is the trace with the call
TokenParsed(added, result, called) ==
    /\ parsed_event' = result.event
    /\ IF result.event = None
       THEN /\ step_buffer' = Some(added)
            /\ detected_type' = result.detected
            /\ trace' = called
            /\ UNCHANGED <<last_complete, stream_active>>
       ELSE /\ last_complete' = result.event[1].complete
            /\ IF result.event[1].complete
               THEN /\ step_buffer' = None
                    /\ detected_type' = None
                    /\ stream_active' = FALSE
                    /\ trace' = called \o <<ParsedYield(result.event[1]),
                                            Entry("clear_buffer", 0, 0, "token", "")>>
               ELSE /\ step_buffer' = Some(added)
                    /\ detected_type' = result.detected
                    /\ trace' = Append(called, ParsedYield(result.event[1]))
                    /\ UNCHANGED stream_active

\* Lines 330-341: AgentToken
OnToken ==
    /\ NextEventIs({"AgentToken"})
    /\ agent_stream' = Tail(agent_stream)
    /\ IF current_step_id = None
       THEN UNCHANGED <<step_buffer, detected_type, parsed_event, trace,
                        last_complete, stream_active>>
       ELSE TokenParsed(GetBuffer \o Head(agent_stream).content,
                        TryParsePartialResult(GetBuffer \o Head(agent_stream).content,
                                              detected_type),
                        Append(trace, Entry("try_parse_partial", 0, 0, "token", "")))
    /\ UNCHANGED current_step_id

\* (mutant) the final parse is made whatever was emitted before
FinalParseDueAlways == current_step_id # None

\* Line 344: the condition of the final parse
FinalParseDue == current_step_id # None /\ stream_active /\ ~last_complete

\* Lines 345-348: the event of the final try_parse_partial, if any, is
\* yielded and the buffer cleared; called is the trace with the call
EndParsed(result, called) ==
    /\ parsed_event' = result.event
    /\ trace' = (IF result.event = None THEN called
                 ELSE Append(called, ParsedYield(result.event[1])))
                \o <<Entry("clear_buffer", 0, 0, "end", "")>>
    /\ step_buffer' = None
    /\ detected_type' = None

\* Lines 343-353: AgentStreamEnd
OnStreamEnd ==
    /\ NextEventIs({"AgentStreamEnd"})
    /\ agent_stream' = Tail(agent_stream)
    /\ IF FinalParseDue
       THEN EndParsed(TryParsePartialResult(GetBuffer, detected_type),
                      Append(trace, Entry("try_parse_partial", 0, 0, "end", "")))
       ELSE /\ UNCHANGED <<step_buffer, detected_type, parsed_event>>
            /\ trace' = Append(trace, Entry("stream_end", 0, 0, "", ""))
    /\ stream_active' = FALSE
    /\ current_step_id' = None
    /\ last_complete' = FALSE

\* Lines 355-369: any other event is yielded as it is
OnOtherEvent ==
    /\ NextEventIs({"AgentPlanEvent", "AgentStepEvent", "AgentFinalResponseEvent",
                    "AgentToolResultsEvent", "AgentToolExecutionEvent"})
    /\ agent_stream' = Tail(agent_stream)
    /\ trace' = Append(trace, Entry("pass", 0, 0, Head(agent_stream).class, ""))
    /\ UNCHANGED <<step_buffer, detected_type, parsed_event, current_step_id,
                   stream_active, last_complete>>

EventsUnchanged ==
    UNCHANGED <<stream, has_call_stream, max_iterations, max_attempts, func,
                exception_types, registry, has_jiter, json_str, parsed,
                in_llm_response, current_step_tokens, parser_buffer, last_parsed,
                tool_registry, conversation_history, pc, iteration, attempt,
                messages, pending, llm_response_text, agent_response,
                tool_results, last_error, outcome, calls, runs>>

EventsNext ==
    \/ OnStreamStart /\ EventsUnchanged
    \/ OnToken /\ EventsUnchanged
    \/ OnStreamEnd /\ EventsUnchanged
    \/ OnOtherEvent /\ EventsUnchanged

EventsSpec == EventsInit /\ [][EventsNext]_vars


\* ------------------------------------------------------------------- C36
\* The places of the trace where a parsed event was yielded, the complete
\* ones among them
ParsedIdx == {i \in Idx : trace[i].op = "yield"}
CompleteIdx == {i \in ParsedIdx : trace[i].idx = 1}

\* What the generator did when AgentStreamEnd arrived: the entries of the
\* trace from the first one made at the end of the stream
EndIdx == {i \in Idx : trace[i].op = "stream_end"
                       \/ (trace[i].op \in {"try_parse_partial", "clear_buffer"}
                           /\ trace[i].name = "end")}
AtEnd == IF EndIdx = {} THEN <<>>
         ELSE LET first == CHOOSE i \in EndIdx : \A j \in EndIdx : i <= j
                  last == CHOOSE i \in EndIdx : \A j \in EndIdx : i >= j
              IN  SubSeq(trace, first, last)

\* AgentStreamEnd has been handled
StreamEnded == EndIdx # {}


\* A complete event was yielded for a token of the turn
CompleteOnToken == \E i \in CompleteIdx : \A j \in EndIdx : i < j

C36_WitnessComplete ==
    /\ StreamEnded
    /\ CompleteOnToken
    /\ AtEnd = <<Entry("stream_end", 0, 0, "", "")>>

extract_json_from_markdown(text) ==
    LET opening == Find(text, Fence, 1)
        content == AfterTag(text, opening)
        closing == Find(text, Fence, content)
    IN  IF opening = 0 THEN None
        ELSE Some(Strip(SubSeq(text, content,
                               IF closing = 0 THEN Len(text) ELSE closing - 1)))

\* StreamingResponseParser.reset: last_parsed = {}
NothingParsed == Exact(EmptyDict)

\* StreamingResponseParser.push(chunk) with the buffer holding full_text: the
\* new last_parsed and the value returned. Of what jiter recovered from an
\* incomplete text only the kind is known, so it may or may not be empty
\* and may or may not differ from the last value.
Push(full_text) ==
    LET text == extract_json_from_markdown(full_text)
        kept == [last |-> last_parsed, returned |-> None]
    IN  IF text = None \/ text[1] = "" THEN {kept}
        ELSE UNION {IF r.exact
                    THEN (IF Truthy(r.val) /\ r # last_parsed
                          THEN {[last |-> r, returned |-> Some(r)]}
                          ELSE {kept})
                    ELSE {[last |-> r, returned |-> Some(r)], kept} :
                    r \in ParsePartialJson(text[1], has_jiter)}

\* What a generator given to stream_with_partial_json yields: a dict with a
\* type (class "dict"), a response object (class AgentPlan, AgentStep or
\* AgentFinalResponse) or an event object of agent.models, whose type is a
\* field; content is the token
Step(class, type, content) == [class |-> class, type |-> type, content |-> content]

\* Agent.run_stream of acton_agent.agent.agent in streaming mode: the events
\* of a step and of a final answer, and those of a plan and of a final answer
StreamOf(text) ==
    <<Step("AgentStreamStart", "stream_start", ""),
      Step("AgentToken", "token", SubSeq(text, 1, 3)),
      Step("AgentToken", "token", SubSeq(text, 4, Len(text))),
      Step("AgentStreamEnd", "stream_end", "")>>

RunStreamEvents ==
    {StreamOf(RespStepTwo)
     \o <<Step("AgentStepEvent", "agent_step", ""),
          Step("AgentToolResultsEvent", "tool_results", "")>>
     \o StreamOf(RespFinal) \o <<Step("AgentFinalResponseEvent", "final_response", "")>>,
     StreamOf(RespPlan) \o <<Step("AgentPlanEvent", "agent_plan", "")>>
     \o StreamOf(RespFinal) \o <<Step("AgentFinalResponseEvent", "final_response", "")>>,
     <<Step("AgentFinalResponseEvent", "final_response", "")>>}

\* The steps stream_with_partial_json tests for: dicts for the stream and
\* the tool results, and the response objects themselves; the text is cut
\* in two at any place
DictStream(text) ==
    {<<Step("dict", "stream_start", ""),
       Step("dict", "token", SubSeq(text, 1, i)),
       Step("dict", "token", SubSeq(text, i + 1, Len(text))),
       Step("dict", "stream_end", "")>> : i \in 1..(Len(text) - 1)}

FencedStep == Fence \o "json\n" \o "{\"tool_calls\": [{\"id\": \"c1\"}]}" \o "\n" \o Fence
FencedFinal == Fence \o "\n" \o RespFinal

DictSteps ==
    {<<Step("dict", "token", "x")>> \o s1
     \o <<Step("AgentStep", "", ""), Step("dict", "tool_results", "")>>
     \o s2 \o <<Step("AgentFinalResponse", "", "")>> :
        s1 \in DictStream(FencedStep), s2 \in {<<>>}}
    \cup {s \o <<Step("AgentPlan", "", ""), Step("dict", "other", "")>> :
             s \in DictStream(FencedFinal) \cup DictStream(RespFinal)}

PartialStreamInit ==
    /\ pc = "stream_with_partial_json"
    /\ agent_stream \in RunStreamEvents \cup DictSteps
    /\ has_jiter \in BOOLEAN
    /\ in_llm_response = FALSE
    /\ current_step_tokens = <<>>
    /\ parser_buffer = ""
    /\ last_parsed = NothingParsed
    /\ current_step_id = None
    /\ stream_active = FALSE
    /\ last_complete = FALSE
    /\ step_buffer = None
    /\ detected_type = None
    /\ parsed_event = None
    /\ trace = <<>>
    /\ json_str = ""
    /\ parsed = None
    /\ RegistryUnused
    /\ llm_response_text = ""
    /\ agent_response = NoResponse
    /\ stream = TRUE
    /\ has_call_stream = TRUE
    /\ max_iterations = 1
    /\ max_attempts = 1
    /\ func = <<>>
    /\ exception_types = {"Exception"}
    /\ tool_registry = <<>>
    /\ conversation_history = <<>>
    /\ iteration = 0
    /\ attempt = 0
    /\ messages = <<>>
    /\ pending = <<>>
    /\ tool_results = <<>>
    /\ last_error = ""
    /\ outcome = Outcome("none", "", 0)
    /\ calls = 0
    /\ runs = 0

\* The next step of the generator is a dict of one of these types, or an
\* object of one of these classes
NextStepIs(classes, types) ==
    /\ pc = "stream_with_partial_json"
    /\ agent_stream # <<>>
    /\ Head(agent_stream).class \in classes
    /\ Head(agent_stream).class = "dict" => Head(agent_stream).type \in types

\* The trace with the step taken from the generator (op "step") and the
\* events yielded for it
Taken(events) ==
    trace \o <<Entry("step", 0, 0, Head(agent_stream).class, Head(agent_stream).content)>>
          \o events

\* Lines 220-225: {"type": "stream_start"}
OnDictStreamStart ==
    /\ NextStepIs({"dict"}, {"stream_start"})
    /\ agent_stream' = Tail(agent_stream)
    /\ in_llm_response' = TRUE
    /\ parser_buffer' = ""
    /\ last_parsed' = NothingParsed
    /\ current_step_tokens' = <<>>
    /\ trace' = Taken(<<Yielded(0, "AgentStreamStart", "")>>)

\* Lines 227-246: {"type": "token"}
OnDictToken ==
    LET token == Head(agent_stream).content IN
    /\ NextStepIs({"dict"}, {"token"})
    /\ agent_stream' = Tail(agent_stream)
    /\ IF in_llm_response
       THEN /\ current_step_tokens' = Append(current_step_tokens, token)
            /\ parser_buffer' = parser_buffer \o token
            /\ \E pushed \in Push(parser_buffer \o token) :
                  /\ last_parsed' = pushed.last
                  /\ trace' = Taken((IF pushed.returned # None
                                     THEN <<Yielded(0, "AgentStepUpdate", "partial")>>
                                     ELSE <<>>)
                                    \o <<Yielded(0, "AgentToken", token)>>)
       ELSE /\ trace' = Taken(<<Yielded(0, "AgentToken", token)>>)
            /\ UNCHANGED <<current_step_tokens, parser_buffer, last_parsed>>
    /\ UNCHANGED in_llm_response

\* Lines 248-258: {"type": "stream_end"}; the last parsed value is yielded
\* when it is not empty
OnDictStreamEnd ==
    /\ NextStepIs({"dict"}, {"stream_end"})
    /\ agent_stream' = Tail(agent_stream)
    /\ in_llm_response' = FALSE
    /\ trace' = Taken((IF last_parsed # NothingParsed
                       THEN <<Yielded(0, "AgentStepUpdate", "complete")>>
                       ELSE <<>>)
                      \o <<Yielded(0, "AgentStreamEnd", "")>>)
    /\ UNCHANGED <<current_step_tokens, parser_buffer, last_parsed>>

\* Lines 260-263: {"type": "tool_results"}
OnDictToolResults ==
    /\ NextStepIs({"dict"}, {"tool_results"})
    /\ agent_stream' = Tail(agent_stream)
    /\ trace' = Taken(<<Yielded(0, "AgentToolResultsEvent", "")>>)
    /\ UNCHANGED <<in_llm_response, current_step_tokens, parser_buffer, last_parsed>>

\* Lines 268-278: an AgentPlan, AgentStep or AgentFinalResponse object
OnResponseObject ==
    /\ NextStepIs({"AgentPlan", "AgentStep", "AgentFinalResponse"}, {})
    /\ agent_stream' = Tail(agent_stream)
    /\ trace' = Taken(<<Yielded(0, EventOf([type |-> Head(agent_stream).class]), "")>>)
    /\ UNCHANGED <<in_llm_response, current_step_tokens, parser_buffer, last_parsed>>

\* Any other step, a dict of another type or an object of another class,
\* matches no branch: the loop goes on to the next step
OnOtherStep ==
    /\ pc = "stream_with_partial_json"
    /\ agent_stream # <<>>
    /\ Head(agent_stream).class \notin {"AgentPlan", "AgentStep", "AgentFinalResponse"}
    /\ Head(agent_stream).class = "dict" =>
          Head(agent_stream).type \notin {"stream_start", "token", "stream_end", "tool_results"}
    /\ agent_stream' = Tail(agent_stream)
    /\ trace' = Taken(<<>>)
    /\ UNCHANGED <<in_llm_response, current_step_tokens, parser_buffer, last_parsed>>

PartialStreamUnchanged ==
    UNCHANGED <<stream, has_call_stream, max_iterations, max_attempts, func,
                exception_types, detected_type, registry, step_buffer, parsed_event,
                has_jiter, json_str, parsed, current_step_id, stream_active,
                last_complete, tool_registry, conversation_history, pc, iteration,
                attempt, messages, pending, llm_response_text, agent_response,
                tool_results, last_error, outcome, calls, runs>>

PartialStreamNext ==
    \/ OnDictStreamStart /\ PartialStreamUnchanged
    \/ OnDictToken /\ PartialStreamUnchanged
    \/ OnDictStreamEnd /\ PartialStreamUnchanged
    \/ OnDictToolResults /\ PartialStreamUnchanged
    \/ OnResponseObject /\ PartialStreamUnchanged
    \/ OnOtherStep /\ PartialStreamUnchanged

PartialStreamSpec == PartialStreamInit /\ [][PartialStreamNext]_vars

\* ------------------------------------------------------------------- C38
\* The events of an Agent.run_stream taken from the generator so far, and
\* the events yielded for them other than AgentStepUpdate, by class and
\* content
RECURSIVE Select(_, _)
Select(tr, op) ==
    IF tr = <<>> THEN <<>>
    ELSE (IF Head(tr).op = op /\ Head(tr).name # "AgentStepUpdate"
          THEN <<<<Head(tr).name, Head(tr).text>>>> ELSE <<>>)
         \o Select(Tail(tr), op)

EventClasses ==
    {"AgentStreamStart", "AgentToken", "AgentStreamEnd", "AgentPlanEvent",
     "AgentStepEvent", "AgentToolResultsEvent", "AgentFinalResponseEvent"}

FromRunStream ==
    /\ pc = "stream_with_partial_json"
    /\ \A i \in Idx : trace[i].op = "step" => trace[i].name \in EventClasses

\* C38: stream_with_partial_json applied to the events of Agent.run_stream
\* of the same package yields one AgentToken for every token and yields
\* every stream start, stream end, plan, step, tool-results and
\* final-response event again, in the order of the events taken.
C38_NothingDropped ==
    FromRunStream => Select(trace, "yield") = Select(trace, "step")


\* ================= StreamingTokenParser._complete_partial_json on prefixes
\* Valid JSON objects: flat, with escapes, with an object inside an array,
\* and with a brace and a bracket inside a string
ObjectNested == "{\"a\": [{\"b\": 1}], \"c\": \"x\"}"
ObjectBraceInString == "{\"s\": \"{[\", \"t\": true}"
JsonObjects == {DocObject, DocEscapes, ObjectNested, ObjectBraceInString}

CompleteInit ==
    /\ pc = "complete_partial_json"
    /\ json_str \in UNION {Prefixes(doc) : doc \in JsonObjects}
    /\ has_jiter = TRUE
    /\ parsed = None
    /\ WrappersUnused
    /\ step_buffer = None
    /\ parsed_event = None
    /\ detected_type = None
    /\ trace = <<>>
    /\ outcome = Outcome("none", "", 0)
    /\ RegistryUnused
    /\ llm_response_text = ""
    /\ agent_response = NoResponse
    /\ stream = TRUE
    /\ has_call_stream = TRUE
    /\ max_iterations = 1
    /\ max_attempts = 1
    /\ func = <<>>
    /\ exception_types = {"Exception"}
    /\ tool_registry = <<>>
    /\ conversation_history = <<>>
    /\ iteration = 0
    /\ attempt = 0
    /\ messages = <<>>
    /\ pending = <<>>
    /\ tool_results = <<>>
    /\ last_error = ""
    /\ calls = 0
    /\ runs = 0

\* _complete_partial_json(json_bytes): the bytes returned are kept in parsed
CompletePartialJsonCall ==
    /\ pc = "complete_partial_json"
    /\ parsed = None
    /\ parsed' = Some(CompletePartialJson(json_str))
    /\ outcome' = Returned
    /\ trace' = <<Entry("_complete_partial_json", 0, 0, "", json_str)>>
    /\ UNCHANGED <<stream, has_call_stream, max_iterations, max_attempts, func,
                   exception_types, detected_type, registry, step_buffer,
                   parsed_event, has_jiter, json_str, wrappers, tool_registry,
                   conversation_history, pc, iteration, attempt, messages, pending,
                   llm_response_text, agent_response, tool_results, last_error,
                   calls, runs>>

CompleteNext == CompletePartialJsonCall

CompleteSpec == CompleteInit /\ [][CompleteNext]_vars

\* ------------------------------------------------------------------- C39
Completed == pc = "complete_partial_json" /\ parsed # None

\* The closers appended are those of the brackets and braces still open
\* outside strings, innermost first
RECURSIVE OpenStack(_, _, _, _)
OpenStack(s, i, stack, in_string) ==
    IF i > Len(s) THEN stack
    ELSE IF in_string
         THEN (IF Ch(s, i) = "\\" THEN OpenStack(s, i + 2, stack, TRUE)
               ELSE OpenStack(s, i + 1, stack, Ch(s, i) # "\""))
         ELSE IF Ch(s, i) = "\"" THEN OpenStack(s, i + 1, stack, TRUE)
         ELSE IF Ch(s, i) = "{" THEN OpenStack(s, i + 1, "}" \o stack, FALSE)
         ELSE IF Ch(s, i) = "[" THEN OpenStack(s, i + 1, "]" \o stack, FALSE)
         ELSE IF Ch(s, i) \in {"}", "]"} /\ stack # ""
              THEN OpenStack(s, i + 1, Tail(stack), FALSE)
         ELSE OpenStack(s, i + 1, stack, FALSE)

ClosedInOrder ==
    LET closers == OpenStack(Strip(json_str), 1, "", FALSE)
    IN  EndsWith(parsed[1], closers)

\* C39: for every truncation prefix of a valid JSON object,
\* _complete_partial_json returns a well-formed JSON value; the brackets
\* and braces open outside string literals are closed innermost first, and
\* a complete input is returned unchanged.
C39_CompletionIsWellFormed ==
    Completed =>
        /\ JsonLoads(parsed[1]).ok
        /\ ClosedInOrder
        /\ JsonLoads(json_str).ok => parsed[1] = json_str

\* The parts of the property taken alone
WellFormedCompletion == Completed => JsonLoads(parsed[1]).ok
OrderedClosers == Completed => ClosedInOrder
CompleteUnchanged == Completed /\ JsonLoads(json_str).ok => parsed[1] = json_str


\* ======================================= toolio_agent: Agent.run_stream
\* AgentResponse, the legacy model: final_answer is Optional (None or
\* Some(text)), tool_calls a list with [] as its default
AgentResponse(thought, tool_calls, final_answer) ==
    [type |-> "AgentResponse", thought |-> thought, plan |-> <<>>,
     tool_calls |-> tool_calls, final_answer |-> final_answer]

\* AgentResponse.has_tool_calls and AgentResponse.is_final
HasToolCalls(response) == Len(response.tool_calls) > 0
IsFinal(response) == response.final_answer # None

\* pydantic accepts AgentResponse(**data): thought is None, a str (made an
\* AgentThought by the validator) or a dict AgentThought accepts, tool_calls
\* a list of ToolCall, final_answer Optional[str]
AgentResponseValid(data) ==
    /\ \/ Get(data, "thought").kind \in {"string", "null"}
       \/ Get(data, "thought").kind = "object" /\ ValidStr(Get(data, "thought"), "content")
    /\ Has(data, "tool_calls") =>
          /\ Get(data, "tool_calls").kind = "array"
          /\ \A n \in DOMAIN Get(data, "tool_calls").items :
                 ValidToolCall(Get(data, "tool_calls").items[n])
    /\ Get(data, "final_answer").kind \in {"string", "null"}

BuildLegacy(data) ==
    AgentResponse(IF Get(data, "thought").kind = "object"
                  THEN OptionalStr(Get(Get(data, "thought"), "content"))
                  ELSE OptionalStr(Get(data, "thought")),
                  IF Has(data, "tool_calls")
                  THEN [n \in DOMAIN Get(data, "tool_calls").items |->
                           ToolCall(ToolCallId(Get(data, "tool_calls").items[n]),
                                    Get(Get(data, "tool_calls").items[n], "tool_name").str)]
                  ELSE <<>>,
                  OptionalStr(Get(data, "final_answer")))

\* toolio_agent parser.py lines 73-76: the else branch, AgentResponse(**data)
LegacyFallback(data, response_text) ==
    IF AgentResponseValid(data) THEN BuildLegacy(data)
    ELSE Raised("ValidationError", ValidationErrorText)

\* toolio_agent parser.py lines 60-76 for a dict
ToolioClassify(data, response_text) ==
    IF In("plan", data)
    THEN IF AgentPlanValid(data) THEN BuildPlan(data)
         ELSE Raised("ValidationError", ValidationErrorText)
    ELSE IF FinalAnswerGiven(data)
    THEN IF AgentFinalResponseValid(data) THEN BuildFinal(data)
         ELSE Raised("ValidationError", ValidationErrorText)
    ELSE IF In("tool_calls", data) /\ LenRaises(Get(data, "tool_calls"))
    THEN Raised("TypeError", UnsupportedText)
    ELSE IF In("tool_calls", data) /\ LenOf(Get(data, "tool_calls")) > 0
    THEN IF AgentStepValid(data) THEN BuildStep(data)
         ELSE Raised("ValidationError", ValidationErrorText)
    ELSE LegacyFallback(data, response_text)

\* The same lines for a value that is no dict: one of the tests, or the **
\* of the else branch, raises TypeError or AttributeError
ToolioClassifyOther(data) ==
    IF data.kind \in {"array", "string"} /\ In("tool_calls", data)
       /\ ~In("plan", data) /\ ~In("final_answer", data)
    THEN Raised("AttributeError", UnsupportedText)
    ELSE Raised("TypeError", UnsupportedText)

\* toolio_agent parser.py lines 51-78: the try block of parse
ToolioParseTry(response_text) ==
    LET text == Strip(response_text)
        loaded == JsonLoads(ExtractJsonFromMarkdown(text))
    IN  IF ~loaded.ok THEN Raised("JSONDecodeError", text)
        ELSE IF loaded.val.kind = "object" THEN ToolioClassify(loaded.val, text)
        ELSE ToolioClassifyOther(loaded.val)

\* The handlers of parse, lines 80-95, as in the agent loop's parser; a
\* legacy AgentResponse is returned as it is
ToolioExceptHandlers(result, response_text) ==
    IF result.type = "AgentResponse" THEN result
    ELSE ExceptHandlers(result, response_text)

\* toolio_agent ResponseParser.parse
ToolioParse(response_text) ==
    ToolioExceptHandlers(ToolioParseTry(response_text), Strip(response_text))

\* Texts the client may return: those of the agent loop, a JSON object with
\* a thought only, one with an empty list of tool calls, and a JSON list
RespThoughtOnly == "{\"thought\": \"Let me think\"}"
RespNoCalls == "{\"thought\": {\"content\": \"t\"}, \"tool_calls\": []}"
RespJsonList == "[1, 2]"
ToolioResponses(n) ==
    IF ScriptLeft(n)
    THEN LLMResponses \cup {RespThoughtOnly, RespNoCalls, RespJsonList}
    ELSE {RespFinal}

\* The registries an agent has been given: no tool, or the calculator and
\* an echo tool that may raise
ToolioRegistries ==
    {<<>>,
     [n \in {"calculator", "echo"} |->
         IF n = "calculator" THEN Tool("calculator", "8", "never")
         ELSE Tool("echo", "", "sometimes")]}

ToolioInit ==
    /\ stream \in BOOLEAN
    /\ has_call_stream \in (IF stream THEN BOOLEAN ELSE {TRUE})
    /\ max_iterations \in 1..MaxIterations
    /\ max_attempts \in 1..MaxAttempts
    /\ tool_registry \in ToolioRegistries
    /\ conversation_history = <<>>
    /\ pc = "toolio_idle"
    /\ iteration = 0
    /\ attempt = 0
    /\ messages = <<>>
    /\ pending = <<>>
    /\ llm_response_text = ""
    /\ agent_response = NoResponse
    /\ tool_results = <<>>
    /\ last_error = ""
    /\ outcome = Outcome("none", "", 0)
    /\ trace = <<>>
    /\ calls = 0
    /\ runs = 0
    /\ func = <<>>
    /\ exception_types = {"Exception"}
    /\ detected_type = None
    /\ RegistryUnused
    /\ StreamingUnused

\* run_stream(user_input), advanced to the head of the loop
ToolioStartRun(user_input) ==
    /\ pc = "toolio_idle"
    /\ runs' = runs + 1
    /\ conversation_history' =
           Append(conversation_history, Message("user", user_input))
    /\ trace' = <<Appended(0, Message("user", user_input))>>
    /\ outcome' = Outcome("running", "", 0)
    /\ pc' = "toolio_loop"
    /\ DropLocals
    /\ UNCHANGED <<config, tool_registry, calls>>

\* A dict run_stream yields: {"type": type}, with "content" for a token
YieldedDict(it, type, content) == Entry("yield", it, 0, "dict:" \o type, content)

\* The head of the loop: the next iteration builds the messages and, in
\* streaming mode, yields {"type": "stream_start"}; the exhausted loop
\* raises MaxIterationsError
ToolioLoopHead ==
    /\ pc = "toolio_loop"
    /\ IF RangeHasNext(iteration)
       THEN /\ iteration' = iteration + 1
            /\ messages' = BuildMessages
            /\ attempt' = 0
            /\ IF stream
               THEN /\ pc' = "toolio_stream_start"
                    /\ trace' = Append(trace, YieldedDict(iteration + 1, "stream_start", ""))
               ELSE /\ pc' = "toolio_llm"
                    /\ trace' = Append(trace,
                                  Entry("llm", iteration + 1, 0, "_call_llm_with_retry", ""))
            /\ UNCHANGED <<pending, llm_response_text, agent_response,
                           tool_results, last_error, outcome>>
       ELSE /\ Finish(Outcome("MaxIterationsError", "", max_iterations))
            /\ UNCHANGED trace
    /\ UNCHANGED <<config, tool_registry, conversation_history, calls, runs>>

\* Where run_stream goes with the parsed response, and what it yields: the
\* response, the AgentStep or AgentFinalResponse made of a legacy response,
\* or nothing for a legacy response with neither tool calls nor an answer,
\* for which the if chain ends and the loop goes on
Handling(response) ==
    CASE response.type = "AgentPlan" ->
            [pc |-> "toolio_plan_yielded", yields |-> <<"AgentPlan">>]
      [] response.type = "AgentStep" ->
            [pc |-> "toolio_step_yielded", yields |-> <<"AgentStep">>]
      [] response.type = "AgentFinalResponse" ->
            [pc |-> "toolio_final_yielded", yields |-> <<"AgentFinalResponse">>]
      [] response.type = "AgentResponse" ->
            IF HasToolCalls(response)
            THEN [pc |-> "toolio_step_yielded", yields |-> <<"AgentStep">>]
            ELSE IF IsFinal(response)
            THEN [pc |-> "toolio_final_yielded", yields |-> <<"AgentFinalResponse">>]
            ELSE [pc |-> "toolio_loop", yields |-> <<>>]

\* run_stream lines 392-475: parse the text, append it to the history as an
\* assistant message, handle the response. tr is the trace so far.
ToolioClassifyAndYield(text, tr) ==
    LET response == ToolioParse(text)
        msg == Message("assistant", text)
    IN  /\ agent_response' = response
        /\ conversation_history' = Append(conversation_history, msg)
        /\ trace' = tr \o <<Entry("parse", iteration, 0, response.type, text),
                            Appended(iteration, msg)>>
                       \o [n \in DOMAIN Handling(response).yields |->
                              Yielded(iteration, Handling(response).yields[n], "")]
        /\ pc' = Handling(response).pc

\* Non-streaming: one attempt of the client's call returns text
ToolioLLMReturns(text) ==
    /\ pc = "toolio_llm"
    /\ text \in ToolioResponses(calls)
    /\ calls' = calls + 1
    /\ llm_response_text' = text
    /\ attempt' = 0
    /\ ToolioClassifyAndYield(text,
           Append(trace, Entry("client", iteration, attempt + 1, "call", text)))
    /\ UNCHANGED <<config, tool_registry, iteration, messages, pending,
                   tool_results, last_error, outcome, runs>>

\* Non-streaming: one attempt raises; after the last attempt LLMCallError is
\* turned into an AgentFinalResponse, which is yielded
ToolioLLMRaises(exc) ==
    LET n == attempt + 1
        tr == Append(trace, Entry("client", iteration, n, "call", exc))
    IN  /\ pc = "toolio_llm"
        /\ ScriptLeft(calls)
        /\ calls' = calls + 1
        /\ last_error' = exc
        /\ IF RetryStop(n)
           THEN /\ attempt' = 0
                /\ trace' = Append(tr, Yielded(iteration, "AgentFinalResponse",
                                               LLMErrorAnswer(exc)))
                /\ pc' = "toolio_final_yielded"
           ELSE /\ attempt' = n
                /\ trace' = tr
                /\ UNCHANGED pc
        /\ UNCHANGED <<config, tool_registry, conversation_history, iteration,
                       messages, pending, llm_response_text, agent_response,
                       tool_results, outcome, runs>>

\* Streaming: the loop over the chunks; {"type": "token"} for each, and
\* {"type": "stream_end"} after the last
ToolioStreamDeliver(chunks, acc, tr) ==
    IF chunks = <<>>
    THEN /\ pc' = "toolio_stream_end"
         /\ pending' = <<>>
         /\ llm_response_text' = acc
         /\ trace' = Append(tr, YieldedDict(iteration, "stream_end", ""))
    ELSE /\ pc' = "toolio_streaming"
         /\ pending' = Tail(chunks)
         /\ llm_response_text' = acc \o Head(chunks)
         /\ trace' = Append(tr, YieldedDict(iteration, "token", Head(chunks)))

\* Streaming, the client has no call_stream: AttributeError leaves run_stream
ToolioStreamNoMethod ==
    /\ pc = "toolio_stream_start"
    /\ ~has_call_stream
    /\ trace' = StreamCalled
    /\ Finish(Outcome("AttributeError", "", 0))
    /\ UNCHANGED <<config, tool_registry, conversation_history, calls, runs>>

\* Streaming, resumed after {"type": "stream_start"}
ToolioStreamOpen(chunks) ==
    /\ pc = "toolio_stream_start"
    /\ has_call_stream
    /\ calls' = calls + 1
    /\ ToolioStreamDeliver(chunks, "",
           Append(StreamCalled, Entry("client", iteration, 1, "call_stream", "")))
    /\ UNCHANGED <<config, tool_registry, conversation_history, iteration,
                   attempt, messages, agent_response, tool_results, last_error,
                   outcome, runs>>

\* Streaming, resumed after a token
ToolioStreamNext ==
    /\ pc = "toolio_streaming"
    /\ ToolioStreamDeliver(pending, llm_response_text, trace)
    /\ UNCHANGED <<config, tool_registry, conversation_history, iteration,
                   attempt, messages, agent_response, tool_results, last_error,
                   outcome, calls, runs>>

\* Streaming: call_stream raises, at once or between two chunks; the
\* exception leaves run_stream
ToolioStreamRaises(exc) ==
    /\ has_call_stream
    /\ \/ /\ pc = "toolio_stream_start"
          /\ ScriptLeft(calls)
          /\ calls' = calls + 1
          /\ trace' = Append(StreamCalled,
                             Entry("client", iteration, 1, "call_stream", exc))
       \/ /\ pc = "toolio_streaming"
          /\ UNCHANGED <<trace, calls>>
    /\ Finish(Outcome("Exception", exc, 0))
    /\ UNCHANGED <<config, tool_registry, conversation_history, runs>>

\* Streaming, resumed after {"type": "stream_end"}
ToolioResumeStreamEnd ==
    /\ pc = "toolio_stream_end"
    /\ ToolioClassifyAndYield(llm_response_text, trace)
    /\ UNCHANGED <<config, tool_registry, iteration, attempt, messages,
                   pending, llm_response_text, tool_results, last_error,
                   outcome, calls, runs>>

\* Resumed after an AgentPlan: continue
ToolioResumePlan ==
    /\ pc = "toolio_plan_yielded"
    /\ pc' = "toolio_loop"
    /\ UNCHANGED <<config, tool_registry, conversation_history, locals,
                   outcome, trace, calls, runs>>

\* Resumed after an AgentStep: _execute_tool_calls starts
ToolioResumeStep ==
    /\ pc = "toolio_step_yielded"
    /\ pc' = "dispatch"
    /\ tool_results' = <<>>
    /\ attempt' = 0
    /\ UNCHANGED <<config, tool_registry, conversation_history, iteration,
                   messages, pending, llm_response_text, agent_response,
                   last_error, outcome, trace, calls, runs>>

\* After _execute_tool_calls returned: the results are appended to the
\* history as a user message and {"type": "tool_results"} is yielded
ToolioFinishDispatch ==
    LET msg == Message("user", FormatToolResults(tool_results)) IN
    /\ pc = "dispatch"
    /\ CurrentIndex > Len(agent_response.tool_calls)
    /\ conversation_history' = Append(conversation_history, msg)
    /\ trace' = trace \o <<Appended(iteration, msg),
                           YieldedDict(iteration, "tool_results", "")>>
    /\ pc' = "toolio_results_yielded"
    /\ UNCHANGED <<config, tool_registry, locals, outcome, calls, runs>>

\* Resumed after {"type": "tool_results"}: continue
ToolioResumeResults ==
    /\ pc = "toolio_results_yielded"
    /\ pc' = "toolio_loop"
    /\ UNCHANGED <<config, tool_registry, conversation_history, locals,
                   outcome, trace, calls, runs>>

\* Resumed after an AgentFinalResponse: return
ToolioResumeFinal ==
    /\ pc = "toolio_final_yielded"
    /\ Finish(Outcome("StopIteration", "", 0))
    /\ UNCHANGED <<config, tool_registry, conversation_history, trace, calls, runs>>

\* _execute_tool_calls and _execute_single_tool of toolio_agent are those of
\* the agent loop above
ToolioNext ==
    \/ \E user_input \in UserInputs : ToolioStartRun(user_input)
    \/ ToolioLoopHead
    \/ \E text \in ToolioResponses(calls) : ToolioLLMReturns(text)
    \/ \E exc \in ClientExceptions : ToolioLLMRaises(exc)
    \/ ToolioStreamNoMethod
    \/ \E text \in ToolioResponses(calls) : \E chunks \in Chunkings(text) : ToolioStreamOpen(chunks)
    \/ ToolioStreamNext
    \/ \E exc \in ClientExceptions : ToolioStreamRaises(exc)
    \/ ToolioResumeStreamEnd
    \/ ToolioResumePlan
    \/ ToolioResumeStep
    \/ ToolMissing
    \/ \E tool \in Tools : ToolReturns(tool.output)
    \/ \E exc \in ToolExceptions : ToolRaises(exc)
    \/ ToolioFinishDispatch
    \/ ToolioResumeResults
    \/ ToolioResumeFinal

ToolioSpec == ToolioInit /\ [][ToolioNext]_vars

\* ------------------------------------------------------------------- C40
\* The places where an LLM response was obtained and parsed, where the LLM
\* is called, and where a structured response is yielded
ObtainedIdx == Ops("parse")
LLMCallIdx == Ops("llm")
StructuredIdx ==
    {i \in Idx : \E class \in ResponseClasses : IsYield(i, class)}

\* The first call of the LLM after place i, or the end of the trace
NextCallAfter(i) ==
    IF \E j \in LLMCallIdx : j > i
    THEN CHOOSE j \in LLMCallIdx : j > i /\ \A k \in LLMCallIdx : k > i => j <= k
    ELSE Len(trace) + 1

\* C40: in toolio_agent's run_stream every iteration that obtained an LLM
\* response yields exactly one AgentPlan, AgentStep or AgentFinalResponse
\* before the LLM is called again, also for a legacy AgentResponse with
\* neither tool calls nor a final answer.
C40_OneStructuredYieldPerResponse ==
    \A i \in ObtainedIdx :
        Cardinality({j \in StructuredIdx : i < j /\ j < NextCallAfter(i)}) = 1

\* The same for the responses that parse does not return as a legacy
\* AgentResponse
StructuredYieldUnlessLegacy ==
    \A i \in ObtainedIdx :
        trace[i].name # "AgentResponse" =>
            Cardinality({j \in StructuredIdx : i < j /\ j < NextCallAfter(i)}) = 1

====
